---- MODULE Spec2Model ----
(***************************************************************************)
(* Model of the OpenRouter adapter (src/lib/openrouter-adapter.ts) and of  *)
(* the completion client it calls (src/unnamed/part_000, lib/openrouter).  *)
(*                                                                         *)
(* The adapter runs on one JavaScript event loop: code between two awaits  *)
(* is one atomic step.  A ChatDetail is a heap object; the chatStore Map   *)
(* holds references to these objects, so chatStore.get returns the stored  *)
(* object itself and a push on it is visible through the store at once.    *)
(***************************************************************************)
EXTENDS Naturals, Sequences, FiniteSets, TLC

\* ---- bounds of the model ----
\* Spec: number of adapter calls (createChat / sendMessage) in one behaviour
MaxCalls == 1
\* Spec: number of chunks the upstream delivers in one behaviour
MaxChunks == 2
\* SpecTurns: number of adapter calls in one behaviour
MaxTurns == 3
\* SpecTurns: number of chunks the upstream delivers in one behaviour
MaxTurnChunks == 1
\* SpecClock: largest value of the clock read by Date.now()
MaxTime == 1
\* SpecUnknown: number of sendMessage calls with an id that is not stored
MaxUnknown == 2
\* SpecReads: number of calls, getChat and listChats among them
MaxReadCalls == 4
\* SpecStream: number of chunks the upstream delivers to the one streamed call
MaxStreamChunks == 3
\* SpecEndpoints: number of calls, the delete and fork endpoints among them
MaxEndpointCalls == 3
\* SpecSync: number of sync mode calls
MaxSyncCalls == 3
\* SpecRoute: number of requests to POST /api/chat
MaxRouteCalls == 1

Calls ==
    1..(CHOOSE n \in {MaxCalls, MaxTurns, MaxUnknown, MaxReadCalls, MaxEndpointCalls} :
          \A m \in {MaxCalls, MaxTurns, MaxUnknown, MaxReadCalls, MaxEndpointCalls} : m <= n)

\* ---- input domains ----
MessageTexts == {"hello"}
UserKeys == {"", "sk-user"}
EnvKeys == {"", "sk-env"}
Modes == {"sync", "experimental_stream"}
\* the id no call ever allocates (nanoid counts from 1)
UnknownId == 0
FailureStatuses == {401}
\* what a response that is not ok carries besides its status
STATUS_TEXT == "Unauthorized"
ErrorBodies == {"{error: {message: No auth credentials found, code: 401}}"}
Fragments == {"a", "b"}

SYSTEM_PROMPT ==
    "You are a helpful AI assistant that can help users build applications, write code, and solve problems. Be concise and practical in your responses."
NO_RESPONSE == "No response generated"

VARIABLES
    chatStore,  \* Map<string, ChatDetail>: sequence of [key, ref] in insertion order
    heap,       \* the ChatDetail objects, by reference (the reference is the allocation id)
    nextId,     \* nanoid(): next fresh identifier
    now,        \* Date.now()
    envKey,     \* process.env.OPENROUTER_API_KEY as read by the client's constructor
    pc,         \* per call: "idle", "fetch", "reading", "done", "failed"
    req,        \* per call: the options it was called with
    loc,        \* per call: its local variables
    out,        \* per call: the outbound ReadableStream (state, events enqueued, cancelled)
    res,        \* per call: what the call returned or threw
    hist,       \* per call: bookkeeping of what the call did (history)
    route       \* per call: the HTTP request that made it, and the response sent

vars == <<chatStore, heap, nextId, now, envKey, pc, req, loc, out, res, hist, route>>

\* ---------------------------------------------------------------------------
\* Session store: a JavaScript Map (insertion ordered, set on a present key
\* replaces the value in place)
\* ---------------------------------------------------------------------------
StoreKeys(store) == {store[i].key : i \in 1..Len(store)}

StoreHas(store, key) == key \in StoreKeys(store)

StoreIndex(store, key) == CHOOSE i \in 1..Len(store) : store[i].key = key

\* chatStore.get(chatId): the reference stored under the key (guarded by StoreHas)
StoreGet(store, key) == store[StoreIndex(store, key)].ref

\* a set that stores nothing
StoreSet_Dropped(store, key, ref) == store

\* a set that moves a key written again to the end
StoreSet_MoveToEnd(store, key, ref) ==
    SelectSeq(store, LAMBDA e : e.key # key) \o <<[key |-> key, ref |-> ref]>>

\* Array.from(chatStore.values()): the stored references in the Map's order
StoreValues(store) == [i \in 1..Len(store) |-> store[i].ref]

\* chatStore.set(key, chat)
StoreSet(store, key, ref) ==
    IF StoreHas(store, key)
    THEN [store EXCEPT ![StoreIndex(store, key)] = [key |-> key, ref |-> ref]]
    ELSE Append(store, [key |-> key, ref |-> ref])

\* ---------------------------------------------------------------------------
\* Messages and chats
\* ---------------------------------------------------------------------------
ChatMessage(id, role, content, at) ==
    [id |-> id, role |-> role, content |-> content, created_at |-> at]

\* a chat that keeps the system message as its first message
NewChat_WithSystem(chatId, timestamp, userMessage) ==
    [id |-> chatId, created_at |-> timestamp, updated_at |-> timestamp, demo |-> TRUE,
     messages |-> <<[id |-> 0, role |-> "system", content |-> SYSTEM_PROMPT,
                     created_at |-> timestamp], userMessage>>]

NewChat(chatId, timestamp, userMessage) ==
    [id |-> chatId, created_at |-> timestamp, updated_at |-> timestamp,
     demo |-> TRUE, messages |-> <<userMessage>>]

\* a push made twice
PushMessage_Twice(h, ref, msg) ==
    [h EXCEPT ![ref].messages = @ \o <<msg, msg>>]

\* an unshift in place of the push
PushMessage_Front(h, ref, msg) ==
    [h EXCEPT ![ref].messages = <<msg>> \o @]

\* chat.messages.push(msg) on the object behind ref
PushMessage(h, ref, msg) ==
    [h EXCEPT ![ref].messages = Append(@, msg)]

\* chat.updated_at = Date.now()
Touch(h, ref, at) == [h EXCEPT ![ref].updated_at = at]

OpenRouterMessage(role, content) == [role |-> role, content |-> content]

SystemMessage == OpenRouterMessage("system", SYSTEM_PROMPT)

\* chat.messages.map(msg => ({role, content}))
MapMessages(msgs) ==
    [i \in 1..Len(msgs) |-> OpenRouterMessage(msgs[i].role, msgs[i].content)]

\* openRouterMessages of createChat
CreateRequest(message) == <<SystemMessage, OpenRouterMessage("user", message)>>

\* a request built from the latest message only
SendRequest_LastOnly(msgs) == <<SystemMessage>> \o MapMessages(<<msgs[Len(msgs)]>>)

\* openRouterMessages of sendMessage
SendRequest(msgs) == <<SystemMessage>> \o MapMessages(msgs)

\* ---------------------------------------------------------------------------
\* Completion client
\* ---------------------------------------------------------------------------
\* this.apiKey = apiKey || process.env.OPENROUTER_API_KEY || '' (constructed without argument)
InstanceKey(env) == IF env # "" THEN env ELSE ""

\* a resolution that prefers the process-wide key
EffectiveApiKey_EnvFirst(apiKey, instanceKey) ==
    IF instanceKey # "" THEN instanceKey ELSE apiKey

\* const effectiveApiKey = apiKey || this.apiKey
EffectiveApiKey(apiKey, instanceKey) == IF apiKey # "" THEN apiKey ELSE instanceKey

NoError == [text |-> "", status |-> 0, statusText |-> ""]
KeyRequiredError ==
    [text |-> "OpenRouter API key is required. Please configure an API key in settings.",
     status |-> 0, statusText |-> ""]
\* an error that names neither the status nor the status text
ApiError_Bare(status, statusText) ==
    [text |-> "OpenRouter API error", status |-> 0, statusText |-> ""]

\* new Error(`OpenRouter API error: ${response.status} ${response.statusText}`)
ApiError(status, statusText) ==
    [text |-> "OpenRouter API error", status |-> status, statusText |-> statusText]

\* the responses that are not ok: status, statusText and the text of the body
FailureResponses ==
    {[status |-> st, statusText |-> STATUS_TEXT, body |-> b] :
        st \in FailureStatuses, b \in ErrorBodies}

\* bodies of a 200 response in sync mode: choices[0]?.message?.content
SyncBodies ==
    {[choices |-> "array", first |-> "message", content |-> "hi there"],
     [choices |-> "array", first |-> "message", content |-> ""],
     [choices |-> "array", first |-> "nomessage", content |-> ""],
     [choices |-> "array", first |-> "none", content |-> ""]}

\* the body of a well-behaved upstream
CoreBodies == {[choices |-> "array", first |-> "message", content |-> "hi there"]}

NoBody == [choices |-> "none", first |-> "none", content |-> ""]

\* response.choices[0]?.message?.content, "" standing for undefined as well
FirstChoiceContent(body) ==
    IF body.first = "message" THEN body.content ELSE ""

\* the content of the first choice without the placeholder
ReplyContent_Raw(body) == FirstChoiceContent(body)

\* response.choices[0]?.message?.content || 'No response generated'
ReplyContent(body) ==
    IF FirstChoiceContent(body) # "" THEN FirstChoiceContent(body) ELSE NO_RESPONSE

\* ---------------------------------------------------------------------------
\* Initial state
\* ---------------------------------------------------------------------------
NoReq == [op |-> "none", chatId |-> UnknownId, message |-> "", mode |-> "sync", apiKey |-> ""]
\* the fetch a call has issued: none yet
NoFetch == [issued |-> FALSE, authorization |-> "", stream |-> FALSE]
NoLoc == [chat |-> 0, userMsg |-> 0, request |-> <<>>, fetch |-> NoFetch, assistantMessage |-> "",
          assistantMessageId |-> 0]
NoOut == [state |-> "none", events |-> <<>>, cancelled |-> FALSE]
NoRes == [kind |-> "none", chat |-> 0, messages |-> <<>>, data |-> <<>>, error |-> NoError]
NoHist == [existing |-> FALSE, pre |-> <<>>, overlap |-> {}, pushes |-> 0, writes |-> 0,
           asstMsg |-> 0, upstream |-> "none", status |-> 0, statusText |-> "",
           errorBody |-> "", body |-> NoBody,
           reads |-> 0, whole |-> "", sentinel |-> FALSE, log |-> <<>>]

\* the body of an HTTP response
NoReply == [kind |-> "", id |-> UnknownId, messages |-> <<>>, error |-> "", details |-> ""]

\* an HTTP request of the API: stage "idle", "admitted", "adapter", "responded";
\* user "" is the anonymous caller; rate and write are what the database did
NoRoute == [stage |-> "idle", endpoint |-> "", user |-> "", hasChatId |-> FALSE,
            chatId |-> UnknownId, message |-> "", streaming |-> FALSE, apiKey |-> "",
            rate |-> "none", write |-> "none", status |-> 0, body |-> NoReply]

Init ==
    /\ chatStore = <<>>
    /\ heap = <<>>
    /\ nextId = 1
    /\ now = 0
    /\ envKey \in EnvKeys
    /\ pc = [c \in Calls |-> "idle"]
    /\ req = [c \in Calls |-> NoReq]
    /\ loc = [c \in Calls |-> NoLoc]
    /\ out = [c \in Calls |-> NoOut]
    /\ res = [c \in Calls |-> NoRes]
    /\ hist = [c \in Calls |-> NoHist]
    /\ route = [c \in Calls |-> NoRoute]

\* ---------------------------------------------------------------------------
\* Upstream byte stream.  A chunk is a sequence of symbols: "nl" a newline,
\* "pfx" the text 'data: ', "done" the text '[DONE]', "open" c followed by
\* "close" the JSON text {"choices":[{"delta":{"content":c}}]} cut in two,
\* "nocontent" a JSON object without content, "bad" text that is no JSON,
\* "comment" a line of other text.
\* ---------------------------------------------------------------------------
Sym(t, c) == [t |-> t, c |-> c]
NL == Sym("nl", "")
PFX == Sym("pfx", "")
DONE == Sym("done", "")
CLOSE == Sym("close", "")

\* one whole data record carrying fragment c, as the upstream frames it
DataRecord(c) == <<PFX, Sym("open", c), CLOSE, NL, NL>>
DoneRecord == <<PFX, DONE, NL, NL>>

\* What one read may deliver: the bytes, and what the sender put into them:
\* `whole` the fragments of the data records that lie wholly inside the chunk,
\* `sentinel` whether a sentinel record lies inside it.
Chunk(bytes, whole, sentinel) == [bytes |-> bytes, whole |-> whole, sentinel |-> sentinel]

Chunks ==
    {Chunk(DataRecord("a"), "a", FALSE),
     Chunk(DataRecord("b") \o DoneRecord, "b", TRUE),
     Chunk(DoneRecord \o DataRecord("b"), "b", TRUE),
     \* a data record cut in two
     Chunk(<<PFX, Sym("open", "a")>>, "", FALSE),
     Chunk(<<CLOSE, NL, NL>>, "", FALSE),
     \* records without a fragment: a comment line, no content, empty content, the sentinel
     Chunk(<<Sym("comment", ""), NL>> \o <<PFX, Sym("nocontent", ""), NL, NL>>
           \o DataRecord("") \o DoneRecord, "", TRUE),
     \* a malformed record before a well-formed one
     Chunk(<<PFX, Sym("bad", ""), NL>> \o DataRecord("a"), "a", FALSE)}

\* the chunks of a well-framed upstream: whole records, the sentinel last
CoreChunks == {Chunk(DataRecord("a") \o DoneRecord, "a", TRUE)}

\* chunk.split('\n')
RECURSIVE SplitLines(_)
SplitLines(s) ==
    LET nls == {i \in 1..Len(s) : s[i] = NL}
    IN  IF nls = {} THEN <<s>>
        ELSE LET i == CHOOSE j \in nls : \A k \in nls : j <= k
             IN  <<SubSeq(s, 1, i - 1)>> \o SplitLines(SubSeq(s, i + 1, Len(s)))

\* line.startsWith('data: ')
StartsWithData(line) == Len(line) >= 1 /\ line[1] = PFX

\* line.slice(6)
SliceData(line) == Tail(line)

\* a parser that takes the first part of a cut record for the whole record
ParseJSON_Lenient(data) ==
    IF Len(data) >= 1 /\ data[1].t = "open"
    THEN [ok |-> TRUE, content |-> data[1].c]
    ELSE IF Len(data) = 1 /\ data[1].t = "nocontent"
    THEN [ok |-> TRUE, content |-> ""]
    ELSE [ok |-> FALSE, content |-> ""]

\* JSON.parse(data) and parsed.choices?.[0]?.delta?.content ("" also for undefined)
ParseJSON(data) ==
    IF Len(data) = 2 /\ data[1].t = "open" /\ data[2] = CLOSE
    THEN [ok |-> TRUE, content |-> data[1].c]
    ELSE IF Len(data) = 1 /\ data[1].t = "nocontent"
    THEN [ok |-> TRUE, content |-> ""]
    ELSE [ok |-> FALSE, content |-> ""]

\* ---------------------------------------------------------------------------
\* Outbound ReadableStream controller
\* ---------------------------------------------------------------------------
\* a delta event that does not carry the id of the assistant message
DeltaEvent_NoId(content, messageId) ==
    [type |-> "message_delta", content |-> content, messageId |-> 0, chat |-> <<>>]

\* JSON.stringify({type: 'message_delta', content, messageId: assistantMessageId})
DeltaEvent(content, messageId) ==
    [type |-> "message_delta", content |-> content, messageId |-> messageId, chat |-> <<>>]

\* JSON.stringify({type: 'chat_complete', chat}): the chat as it is at this moment
CompleteEvent(chat) ==
    [type |-> "chat_complete", content |-> "", messageId |-> 0, chat |-> <<chat>>]

\* controller.enqueue throws once the stream is no longer readable
CanEnqueue(o) == o.state = "readable"

\* controller.enqueue(encoder.encode(event))
Enqueue(o, ev) == [o EXCEPT !.events = Append(@, ev)]

\* controller.close()
CloseStream(o) == [o EXCEPT !.state = "closed"]

\* a close in place of the error
ErrorStream_Closes(o) == IF o.state = "readable" THEN [o EXCEPT !.state = "closed"] ELSE o

\* controller.error(error): no effect unless the stream is readable
ErrorStream(o) == IF o.state = "readable" THEN [o EXCEPT !.state = "errored"] ELSE o

\* ---------------------------------------------------------------------------
\* Stream transcoder: one line, one chunk
\* st = [assistantMessage, out]; id is assistantMessageId
\* ---------------------------------------------------------------------------
\* the inner try without the accumulation
AcceptContent_NoAccumulate(st, content, id) ==
    [assistantMessage |-> st.assistantMessage,
     out |-> IF CanEnqueue(st.out) THEN Enqueue(st.out, DeltaEvent(content, id))
             ELSE st.out]

\* an inner try that enqueues before it accumulates: a throwing enqueue loses
\* the fragment
AcceptContent_EnqueueFirst(st, content, id) ==
    IF CanEnqueue(st.out)
    THEN [assistantMessage |-> st.assistantMessage \o content,
          out |-> Enqueue(st.out, DeltaEvent(content, id))]
    ELSE st

\* body of the inner try for a parsed content
AcceptContent(st, content, id) ==
    [assistantMessage |-> st.assistantMessage \o content,
     out |-> IF CanEnqueue(st.out) THEN Enqueue(st.out, DeltaEvent(content, id))
             ELSE st.out]

\* a line handler without the `if (content)` test
ProcessLine_NoContentCheck(st, line, id) ==
    IF ~StartsWithData(line) THEN st
    ELSE IF SliceData(line) = <<DONE>> THEN st
    ELSE LET parsed == ParseJSON(SliceData(line))
         IN  IF parsed.ok THEN AcceptContent(st, parsed.content, id) ELSE st

\* a line handler whose parse error reaches the outer catch
ProcessLine_MalformedErrors(st, line, id) ==
    IF ~StartsWithData(line) THEN st
    ELSE IF SliceData(line) = <<DONE>> THEN st
    ELSE LET parsed == ParseJSON(SliceData(line))
         IN  IF ~parsed.ok THEN [st EXCEPT !.out = ErrorStream(@)]
             ELSE IF parsed.content # "" THEN AcceptContent(st, parsed.content, id)
             ELSE st

\* for (const line of lines): one line of the chunk
ProcessLine(st, line, id) ==
    IF ~StartsWithData(line) THEN st
    ELSE IF SliceData(line) = <<DONE>> THEN st
    ELSE LET parsed == ParseJSON(SliceData(line))
         IN  IF parsed.ok /\ parsed.content # ""
             THEN AcceptContent(st, parsed.content, id)
             ELSE st

\* a loop over the lines that the sentinel ends
RECURSIVE ProcessLines_StopAtDone(_, _, _)
ProcessLines_StopAtDone(st, lines, id) ==
    IF lines = <<>> THEN st
    ELSE IF StartsWithData(Head(lines)) /\ SliceData(Head(lines)) = <<DONE>> THEN st
    ELSE ProcessLines_StopAtDone(ProcessLine(st, Head(lines), id), Tail(lines), id)

RECURSIVE ProcessLines(_, _, _)
ProcessLines(st, lines, id) ==
    IF lines = <<>> THEN st
    ELSE ProcessLines(ProcessLine(st, Head(lines), id), Tail(lines), id)

ProcessChunk(st, chunk, id) == ProcessLines(st, SplitLines(chunk), id)

\* ---------------------------------------------------------------------------
\* Adapter operations, one action per stretch of code between two awaits
\* ---------------------------------------------------------------------------
InFlight(c) == pc[c] \in {"fetch", "reading"}

\* a credential check that lets every call through
KeyMissing_Never(r) == FALSE

\* createChatCompletion up to its fetch: throws when no key is in effect
KeyMissing(r) == EffectiveApiKey(r.apiKey, InstanceKey(envKey)) = ""

\* the fetch that createChatCompletion issues for the call, if it issues one:
\* 'Authorization': `Bearer ${effectiveApiKey}`, body.stream
FetchCall(r) ==
    IF KeyMissing(r) THEN NoFetch
    ELSE [issued |-> TRUE,
          authorization |-> EffectiveApiKey(r.apiKey, InstanceKey(envKey)),
          stream |-> r.mode = "experimental_stream"]

\* a rejection whose error has lost the status
Throw_NoStatus(c, err) ==
    /\ pc' = [pc EXCEPT ![c] = "failed"]
    /\ res' = [res EXCEPT ![c] = [NoRes EXCEPT !.kind = "error",
                                               !.error = [err EXCEPT !.status = 0]]]

\* the call rejects with err
Throw(c, err) ==
    /\ pc' = [pc EXCEPT ![c] = "failed"]
    /\ res' = [res EXCEPT ![c] = [NoRes EXCEPT !.kind = "error", !.error = err]]

\* the call is suspended at `await fetch(...)`
AwaitFetch(c) ==
    /\ pc' = [pc EXCEPT ![c] = "fetch"]
    /\ UNCHANGED res

\* a fallback that creates the chat under the id the caller asked for
BeginCreate_UnderRequestedId(c, r) ==
    LET chatId == IF r.op = "sendMessage" THEN r.chatId ELSE nextId
        userMessage == ChatMessage(nextId + 1, "user", r.message, now)
    IN  /\ req' = [req EXCEPT ![c] = r]
        /\ heap' = (chatId :> NewChat(chatId, now, userMessage)) @@ heap
        /\ nextId' = nextId + 2
        /\ loc' = [loc EXCEPT ![c] = [NoLoc EXCEPT !.chat = chatId,
                                                   !.userMsg = userMessage.id,
                                                   !.fetch = FetchCall(r),
                                                   !.request = CreateRequest(r.message)]]
        /\ hist' = [hist EXCEPT ![c] = NoHist]
        /\ IF KeyMissing(r) THEN Throw(c, KeyRequiredError) ELSE AwaitFetch(c)
        /\ UNCHANGED <<chatStore, now, envKey, out>>

\* createChat from its entry to the await of createChatCompletion
BeginCreate(c, r) ==
    LET chatId == nextId
        userMessage == ChatMessage(nextId + 1, "user", r.message, now)
    IN  /\ req' = [req EXCEPT ![c] = r]
        /\ heap' = heap @@ (chatId :> NewChat(chatId, now, userMessage))
        /\ nextId' = nextId + 2
        /\ loc' = [loc EXCEPT ![c] = [NoLoc EXCEPT !.chat = chatId,
                                                   !.userMsg = userMessage.id,
                                                   !.fetch = FetchCall(r),
                                                   !.request = CreateRequest(r.message)]]
        /\ hist' = [hist EXCEPT ![c] = NoHist]
        /\ IF KeyMissing(r) THEN Throw(c, KeyRequiredError) ELSE AwaitFetch(c)
        /\ UNCHANGED <<chatStore, now, envKey, out>>

\* the other calls at work on the chat with this id
OthersOn(c, chatId) ==
    {d \in Calls \ {c} : InFlight(d) /\ heap[loc[d].chat].id = chatId}

\* a sendMessage that works on a copy of the stored chat, which its store write
\* then puts in the place of the stored one
BeginSendExisting_Copy(c, r) ==
    LET chat == StoreGet(chatStore, r.chatId)
        userMessage == ChatMessage(nextId, "user", r.message, now)
        copy == nextId + 1
        copied == heap @@ (copy :> [heap[chat] EXCEPT !.messages = Append(@, userMessage)])
    IN  /\ req' = [req EXCEPT ![c] = r]
        /\ heap' = copied
        /\ nextId' = nextId + 2
        /\ loc' = [loc EXCEPT ![c] = [NoLoc EXCEPT !.chat = copy,
                                                   !.userMsg = userMessage.id,
                                                   !.fetch = FetchCall(r),
                                                   !.request = SendRequest(copied[copy].messages)]]
        /\ hist' = [d \in Calls |->
                      IF d = c THEN [NoHist EXCEPT !.existing = TRUE,
                                                   !.pre = heap[chat].messages,
                                                   !.overlap = OthersOn(c, r.chatId)]
                      ELSE IF d \in OthersOn(c, r.chatId)
                      THEN [hist[d] EXCEPT !.overlap = @ \cup {c}]
                      ELSE hist[d]]
        /\ IF KeyMissing(r) THEN Throw(c, KeyRequiredError) ELSE AwaitFetch(c)
        /\ UNCHANGED <<chatStore, now, envKey, out>>

\* sendMessage on a stored chat, from its entry to the await of createChatCompletion
BeginSendExisting(c, r) ==
    LET chat == StoreGet(chatStore, r.chatId)
        userMessage == ChatMessage(nextId, "user", r.message, now)
        pushed == PushMessage(heap, chat, userMessage)
        others == OthersOn(c, r.chatId)
    IN  /\ req' = [req EXCEPT ![c] = r]
        /\ heap' = pushed
        /\ nextId' = nextId + 1
        /\ loc' = [loc EXCEPT ![c] = [NoLoc EXCEPT !.chat = chat,
                                                   !.userMsg = userMessage.id,
                                                   !.fetch = FetchCall(r),
                                                   !.request = SendRequest(pushed[chat].messages)]]
        /\ hist' = [d \in Calls |->
                      IF d = c THEN [NoHist EXCEPT !.existing = TRUE,
                                                   !.pre = heap[chat].messages,
                                                   !.overlap = others]
                      ELSE IF d \in others THEN [hist[d] EXCEPT !.overlap = @ \cup {c}]
                      ELSE hist[d]]
        /\ IF KeyMissing(r) THEN Throw(c, KeyRequiredError) ELSE AwaitFetch(c)
        /\ UNCHANGED <<chatStore, now, envKey, out>>

\* a call may start once the calls before it have started
MayStart(c) == pc[c] = "idle" /\ \A d \in Calls : d < c => pc[d] # "idle"

CreateChatBy(c, keys) ==
    /\ MayStart(c)
    /\ \E m \in MessageTexts, mode \in Modes, k \in keys :
          BeginCreate(c, [op |-> "createChat", chatId |-> UnknownId, message |-> m,
                          mode |-> mode, apiKey |-> k])
    /\ UNCHANGED route

CreateChat(c) == CreateChatBy(c, UserKeys)

\* the ids a caller passes: the id of a stored chat, or an id that is not stored
SendMessageBy(c, ids, keys) ==
    /\ MayStart(c)
    /\ \E id \in ids, m \in MessageTexts, mode \in Modes, k \in keys :
          LET r == [op |-> "sendMessage", chatId |-> id, message |-> m,
                    mode |-> mode, apiKey |-> k]
          IN  IF StoreHas(chatStore, id) THEN BeginSendExisting(c, r)
              ELSE BeginCreate(c, r)
    /\ UNCHANGED route

SendMessageTo(c, ids) == SendMessageBy(c, ids, UserKeys)

SendMessage(c) == SendMessageTo(c, StoreKeys(chatStore) \cup {UnknownId})

\* the same by callers that pass stored ids only
SendStored(c) == SendMessageTo(c, StoreKeys(chatStore))

\* fetch rejects, or the response is not ok: createChatCompletion throws
FetchFail(c) ==
    /\ pc[c] = "fetch"
    /\ \E rsp \in FailureResponses :
          /\ Throw(c, ApiError(rsp.status, rsp.statusText))
          /\ hist' = [hist EXCEPT ![c].status = rsp.status,
                                  ![c].statusText = rsp.statusText,
                                  ![c].errorBody = rsp.body]
    /\ UNCHANGED <<chatStore, heap, nextId, now, envKey, req, loc, out, route>>

\* a sync store write under the id of the user message
SyncKey_UserMessageId(c) == loc[c].userMsg

\* the key of the sync store write: createChat's own chatId, sendMessage's options.chatId
SyncKey(c) == IF hist[c].existing THEN req[c].chatId ELSE heap[loc[c].chat].id

\* sync mode: the response is ok and its body is read
FetchOkSyncFrom(c, bodies) ==
    /\ pc[c] = "fetch"
    /\ req[c].mode = "sync"
    /\ \E body \in bodies :
          LET chat == loc[c].chat
              assistantMessage == ChatMessage(nextId, "assistant", ReplyContent(body), now)
              h2 == Touch(PushMessage(heap, chat, assistantMessage), chat, now)
          IN  /\ heap' = h2
              /\ nextId' = nextId + 1
              /\ chatStore' = StoreSet(chatStore, SyncKey(c), chat)
              /\ pc' = [pc EXCEPT ![c] = "done"]
              /\ res' = [res EXCEPT ![c] = [NoRes EXCEPT !.kind = "chat", !.chat = chat,
                                                         !.messages = h2[chat].messages]]
              /\ hist' = [hist EXCEPT ![c].pushes = @ + 1, ![c].writes = @ + 1,
                                      ![c].asstMsg = assistantMessage.id,
                                      ![c].body = body]
              /\ UNCHANGED loc
    /\ UNCHANGED <<now, envKey, req, out, route>>

FetchOkSync(c) == FetchOkSyncFrom(c, SyncBodies)

\* the same against a well-behaved upstream
FetchOkCore(c) == FetchOkSyncFrom(c, CoreBodies)

\* a stream branch that stores the chat when it returns the stream
FetchOkStream_Stores(c) ==
    /\ pc[c] = "fetch"
    /\ req[c].mode = "experimental_stream"
    /\ pc' = [pc EXCEPT ![c] = "reading"]
    /\ loc' = [loc EXCEPT ![c].assistantMessage = "", ![c].assistantMessageId = nextId]
    /\ nextId' = nextId + 1
    /\ chatStore' = StoreSet(chatStore, heap[loc[c].chat].id, loc[c].chat)
    /\ out' = [out EXCEPT ![c] = [NoOut EXCEPT !.state = "readable"]]
    /\ res' = [res EXCEPT ![c] = [NoRes EXCEPT !.kind = "stream"]]
    /\ hist' = [hist EXCEPT ![c].upstream = "open"]
    /\ UNCHANGED <<heap, now, envKey, req, route>>

\* stream mode: the response is ok; transformStreamToV0Format builds the outbound
\* stream, whose start() runs up to its first reader.read()
FetchOkStream(c) ==
    /\ pc[c] = "fetch"
    /\ req[c].mode = "experimental_stream"
    /\ pc' = [pc EXCEPT ![c] = "reading"]
    /\ loc' = [loc EXCEPT ![c].assistantMessage = "", ![c].assistantMessageId = nextId]
    /\ nextId' = nextId + 1
    /\ out' = [out EXCEPT ![c] = [NoOut EXCEPT !.state = "readable"]]
    /\ res' = [res EXCEPT ![c] = [NoRes EXCEPT !.kind = "stream"]]
    /\ hist' = [hist EXCEPT ![c].upstream = "open"]
    /\ UNCHANGED <<chatStore, heap, now, envKey, req, route>>

RECURSIVE SumReads(_)
SumReads(n) == IF n = 0 THEN 0 ELSE hist[n].reads + SumReads(n - 1)

\* chunks delivered so far
ChunksRead == SumReads(Cardinality(Calls))

\* reader.read() yields a chunk: decode, split, handle every line
ReadFrom(c, catalog) ==
    /\ pc[c] = "reading"
    /\ \E chunk \in catalog :
          LET st == ProcessChunk([assistantMessage |-> loc[c].assistantMessage, out |-> out[c]],
                                 chunk.bytes, loc[c].assistantMessageId)
          IN  /\ loc' = [loc EXCEPT ![c].assistantMessage = st.assistantMessage]
              /\ out' = [out EXCEPT ![c] = st.out]
              /\ hist' = [hist EXCEPT ![c].reads = @ + 1,
                                      ![c].whole = @ \o chunk.whole,
                                      ![c].sentinel = @ \/ chunk.sentinel]
    /\ UNCHANGED <<chatStore, heap, nextId, now, envKey, pc, req, res, route>>

ReadChunk(c) == ChunksRead < MaxChunks /\ ReadFrom(c, Chunks)

\* the same against a well-framed upstream
ReadCore(c) == ChunksRead < MaxTurnChunks /\ ReadFrom(c, CoreChunks)

\* a finalize that emits chat_complete before it appends the assistant message
ReadDone_EmitFirst(c) ==
    /\ pc[c] = "reading"
    /\ LET chat == loc[c].chat
           finalMessage == ChatMessage(loc[c].assistantMessageId, "assistant",
                                       loc[c].assistantMessage, now)
           h2 == Touch(PushMessage(heap, chat, finalMessage), chat, now)
       IN  /\ heap' = h2
           /\ chatStore' = StoreSet(chatStore, heap[chat].id, chat)
           /\ out' = [out EXCEPT ![c] =
                        IF CanEnqueue(@) THEN CloseStream(Enqueue(@, CompleteEvent(heap[chat])))
                        ELSE ErrorStream(@)]
           /\ hist' = [hist EXCEPT ![c].pushes = @ + 1, ![c].writes = @ + 1,
                                   ![c].asstMsg = finalMessage.id, ![c].upstream = "closed"]
    /\ pc' = [pc EXCEPT ![c] = "done"]
    /\ UNCHANGED <<nextId, now, envKey, req, loc, res, route>>

\* a finalize that puts the placeholder of the sync path in place of an empty reply
ReadDone_Placeholder(c) ==
    /\ pc[c] = "reading"
    /\ LET chat == loc[c].chat
           finalMessage == ChatMessage(loc[c].assistantMessageId, "assistant",
                                       IF loc[c].assistantMessage = "" THEN NO_RESPONSE
                                       ELSE loc[c].assistantMessage, now)
           h2 == Touch(PushMessage(heap, chat, finalMessage), chat, now)
       IN  /\ heap' = h2
           /\ chatStore' = StoreSet(chatStore, heap[chat].id, chat)
           /\ out' = [out EXCEPT ![c] =
                        IF CanEnqueue(@) THEN CloseStream(Enqueue(@, CompleteEvent(h2[chat])))
                        ELSE ErrorStream(@)]
           /\ hist' = [hist EXCEPT ![c].pushes = @ + 1, ![c].writes = @ + 1,
                                   ![c].asstMsg = finalMessage.id, ![c].upstream = "closed"]
    /\ pc' = [pc EXCEPT ![c] = "done"]
    /\ UNCHANGED <<nextId, now, envKey, req, loc, res, route>>

\* reader.read() yields done: finalize
ReadDone(c) ==
    /\ pc[c] = "reading"
    /\ LET chat == loc[c].chat
           finalMessage == ChatMessage(loc[c].assistantMessageId, "assistant",
                                       loc[c].assistantMessage, now)
           h2 == Touch(PushMessage(heap, chat, finalMessage), chat, now)
       IN  /\ heap' = h2
           /\ chatStore' = StoreSet(chatStore, heap[chat].id, chat)
           /\ out' = [out EXCEPT ![c] =
                        IF CanEnqueue(@) THEN CloseStream(Enqueue(@, CompleteEvent(h2[chat])))
                        ELSE ErrorStream(@)]
           /\ hist' = [hist EXCEPT ![c].pushes = @ + 1, ![c].writes = @ + 1,
                                   ![c].asstMsg = finalMessage.id, ![c].upstream = "closed"]
    /\ pc' = [pc EXCEPT ![c] = "done"]
    /\ UNCHANGED <<nextId, now, envKey, req, loc, res, route>>

\* reader.read() rejects: the outer catch
ReadError(c) ==
    /\ pc[c] = "reading"
    /\ pc' = [pc EXCEPT ![c] = "failed"]
    /\ out' = [out EXCEPT ![c] = ErrorStream(@)]
    /\ hist' = [hist EXCEPT ![c].upstream = "error"]
    /\ UNCHANGED <<chatStore, heap, nextId, now, envKey, req, loc, res, route>>

\* a cancel that the underlying source hears and that ends the read loop
Cancel_StopsReading(c) ==
    /\ pc[c] = "reading"
    /\ out[c].state = "readable"
    /\ out' = [out EXCEPT ![c].state = "closed", ![c].cancelled = TRUE]
    /\ pc' = [pc EXCEPT ![c] = "failed"]
    /\ UNCHANGED <<chatStore, heap, nextId, now, envKey, req, loc, res, hist, route>>

\* the consumer of the outbound stream goes away: the stream is cancelled; the
\* underlying source has no cancel(), so the read loop is not told
Cancel(c) ==
    /\ pc[c] = "reading"
    /\ out[c].state = "readable"
    /\ out' = [out EXCEPT ![c].state = "closed", ![c].cancelled = TRUE]
    /\ UNCHANGED <<chatStore, heap, nextId, now, envKey, pc, req, loc, res, hist, route>>

\* time passes
Tick ==
    /\ now < MaxTime
    /\ now' = now + 1
    /\ UNCHANGED <<chatStore, heap, nextId, envKey, pc, req, loc, out, res, hist, route>>

\* a few calls against an upstream of any shape, within one reading of the clock
SpecCalls == 1..MaxCalls

Next ==
    \/ \E c \in SpecCalls : CreateChat(c)
    \/ \E c \in SpecCalls : SendMessage(c)
    \/ \E c \in SpecCalls : FetchFail(c)
    \/ \E c \in SpecCalls : FetchOkSync(c)
    \/ \E c \in SpecCalls : FetchOkStream(c)
    \/ \E c \in SpecCalls : ReadChunk(c)
    \/ \E c \in SpecCalls : ReadDone(c)
    \/ \E c \in SpecCalls : ReadError(c)
    \/ \E c \in SpecCalls : Cancel(c)

Spec == Init /\ [][Next]_vars

\* the same while time passes
NextClock == Next \/ Tick

SpecClock == Init /\ [][NextClock]_vars

\* the turns of one chat: the first call creates it, the others send to it,
\* overlapping at will, against a well-behaved upstream, without a process-wide
\* key and within one reading of the clock
TurnCalls == 1..MaxTurns

InitTurns == Init /\ envKey = ""

NextTurns ==
    \/ CreateChat(1)
    \/ \E c \in TurnCalls : SendStored(c)
    \/ \E c \in TurnCalls : FetchFail(c)
    \/ \E c \in TurnCalls : FetchOkCore(c)
    \/ \E c \in TurnCalls : FetchOkStream(c)
    \/ \E c \in TurnCalls : ReadCore(c)
    \/ \E c \in TurnCalls : ReadDone(c)
    \/ \E c \in TurnCalls : ReadError(c)
    \/ \E c \in TurnCalls : Cancel(c)

SpecTurns == InitTurns /\ [][NextTurns]_vars

\* the turns of one chat as in SpecTurns, with upstream streams that close or
\* fail before they deliver a chunk
NextOpenTurns ==
    \/ CreateChat(1)
    \/ \E c \in TurnCalls : SendStored(c)
    \/ \E c \in TurnCalls : FetchFail(c)
    \/ \E c \in TurnCalls : FetchOkCore(c)
    \/ \E c \in TurnCalls : FetchOkStream(c)
    \/ \E c \in TurnCalls : ReadDone(c)
    \/ \E c \in TurnCalls : ReadError(c)
    \/ \E c \in TurnCalls : Cancel(c)

SpecOpenTurns == InitTurns /\ [][NextOpenTurns]_vars

\* sendMessage by callers that pass an id that is not stored
SendUnknown(c) == SendMessageTo(c, {UnknownId})

UnknownCalls == 1..MaxUnknown

NextUnknown ==
    \/ \E c \in UnknownCalls : SendUnknown(c)
    \/ \E c \in UnknownCalls : FetchFail(c)
    \/ \E c \in UnknownCalls : FetchOkCore(c)
    \/ \E c \in UnknownCalls : FetchOkStream(c)
    \/ \E c \in UnknownCalls : ReadCore(c)
    \/ \E c \in UnknownCalls : ReadDone(c)
    \/ \E c \in UnknownCalls : ReadError(c)
    \/ \E c \in UnknownCalls : Cancel(c)

SpecUnknown == Init /\ [][NextUnknown]_vars

\* getChat(chatId): the stored chat, or NoChat for null
NoChat == [id |-> UnknownId, created_at |-> 0, updated_at |-> 0, demo |-> FALSE,
           messages |-> <<>>]

GetChat(chatId) ==
    IF StoreHas(chatStore, chatId) THEN heap[StoreGet(chatStore, chatId)] ELSE NoChat

\* a getChat that stores an empty chat under an id it does not find
GetChatCall_Creates(c) ==
    /\ MayStart(c)
    /\ \E id \in StoreKeys(chatStore) \cup {UnknownId} :
          /\ req' = [req EXCEPT ![c] = [NoReq EXCEPT !.op = "getChat", !.chatId = id]]
          /\ IF StoreHas(chatStore, id)
             THEN /\ res' = [res EXCEPT ![c] = [NoRes EXCEPT !.kind = "chat",
                                                    !.chat = StoreGet(chatStore, id),
                                                    !.messages = GetChat(id).messages]]
                  /\ UNCHANGED <<chatStore, heap, nextId>>
             ELSE /\ heap' = (nextId :> [NoChat EXCEPT !.id = id]) @@ heap
                  /\ chatStore' = StoreSet(chatStore, id, nextId)
                  /\ nextId' = nextId + 1
                  /\ res' = [res EXCEPT ![c] = [NoRes EXCEPT !.kind = "chat", !.chat = nextId]]
    /\ pc' = [pc EXCEPT ![c] = "done"]
    /\ UNCHANGED <<now, envKey, loc, out, hist, route>>

\* getChat(chatId): return this.chatStore.get(chatId) || null
GetChatCall(c) ==
    /\ MayStart(c)
    /\ \E id \in StoreKeys(chatStore) \cup {UnknownId} :
          /\ req' = [req EXCEPT ![c] = [NoReq EXCEPT !.op = "getChat", !.chatId = id]]
          /\ res' = [res EXCEPT ![c] =
                       IF StoreHas(chatStore, id)
                       THEN [NoRes EXCEPT !.kind = "chat", !.chat = StoreGet(chatStore, id),
                                          !.messages = GetChat(id).messages]
                       ELSE [NoRes EXCEPT !.kind = "null"]]
    /\ pc' = [pc EXCEPT ![c] = "done"]
    /\ UNCHANGED <<chatStore, heap, nextId, now, envKey, loc, out, hist, route>>

\* listChats(): return { data: Array.from(this.chatStore.values()) }
ListChats(c) ==
    /\ MayStart(c)
    /\ req' = [req EXCEPT ![c] = [NoReq EXCEPT !.op = "listChats"]]
    /\ res' = [res EXCEPT ![c] =
                 [NoRes EXCEPT !.kind = "list",
                               !.data = [i \in 1..Len(chatStore) |->
                                           heap[StoreValues(chatStore)[i]]]]]
    /\ pc' = [pc EXCEPT ![c] = "done"]
    /\ UNCHANGED <<chatStore, heap, nextId, now, envKey, loc, out, hist, route>>

\* createChat and sendMessage on a stored chat by callers that bring a key
GivenKeys == UserKeys \ {""}

CreateKeyed(c) == CreateChatBy(c, GivenKeys)

SendKeyed(c) == SendMessageBy(c, StoreKeys(chatStore), GivenKeys)

\* chats created and continued, in sync and in stream mode, and read in between
\* and afterwards
ReadCalls == 1..MaxReadCalls

NextReads ==
    \/ \E c \in TurnCalls : CreateKeyed(c)
    \/ \E c \in TurnCalls : SendKeyed(c)
    \/ \E c \in ReadCalls : FetchOkCore(c)
    \/ \E c \in ReadCalls : FetchOkStream(c)
    \/ \E c \in ReadCalls : ReadDone(c)
    \/ \E c \in ReadCalls : GetChatCall(c)
    \/ \E c \in ReadCalls : ListChats(c)

SpecReads == InitTurns /\ [][NextReads]_vars

\* what one read of the streamed call may deliver: the chunks above, and a data
\* record cut between its 'data: ' prefix and its payload
StreamChunks ==
    Chunks \cup {Chunk(<<PFX>>, "", FALSE),
                 Chunk(<<Sym("open", "b"), CLOSE, NL, NL>>, "", FALSE)}

\* stream mode createChat by a caller that brings a key
CreateStreamed(c) ==
    /\ MayStart(c)
    /\ \E m \in MessageTexts, k \in GivenKeys :
          BeginCreate(c, [op |-> "createChat", chatId |-> UnknownId, message |-> m,
                          mode |-> "experimental_stream", apiKey |-> k])
    /\ UNCHANGED route

\* reader.read() yields a chunk, and the chunk is kept on record
ReadLogged(c) ==
    /\ pc[c] = "reading"
    /\ hist[c].reads < MaxStreamChunks
    /\ \E chunk \in StreamChunks :
          LET st == ProcessChunk([assistantMessage |-> loc[c].assistantMessage, out |-> out[c]],
                                 chunk.bytes, loc[c].assistantMessageId)
          IN  /\ loc' = [loc EXCEPT ![c].assistantMessage = st.assistantMessage]
              /\ out' = [out EXCEPT ![c] = st.out]
              /\ hist' = [hist EXCEPT ![c].reads = @ + 1,
                                      ![c].whole = @ \o chunk.whole,
                                      ![c].sentinel = @ \/ chunk.sentinel,
                                      ![c].log = Append(@, chunk)]
    /\ UNCHANGED <<chatStore, heap, nextId, now, envKey, pc, req, res, route>>

\* one streamed createChat against an upstream of any shape, every chunk on record
NextStream ==
    \/ CreateStreamed(1)
    \/ FetchOkStream(1)
    \/ ReadLogged(1)
    \/ ReadDone(1)
    \/ ReadError(1)
    \/ Cancel(1)

SpecStream == Init /\ [][NextStream]_vars

\* ---------------------------------------------------------------------------
\* HTTP endpoints over the adapter
\* ---------------------------------------------------------------------------
\* the response to the request of call c
Respond(c, status, body) ==
    route' = [route EXCEPT ![c].stage = "responded", ![c].status = status, ![c].body = body]

\* the ids a client may send: the id of a stored chat, or one that is not stored
ClientIds == StoreKeys(chatStore) \cup {UnknownId}

\* the store without the entry of this key
StoreDelete(store, key) == SelectSeq(store, LAMBDA e : e.key # key)

\* a delete endpoint that removes the chat from the store
DeleteChat_Removes(c) ==
    /\ MayStart(c)
    /\ \E given \in BOOLEAN, id \in ClientIds :
          /\ req' = [req EXCEPT ![c] = [NoReq EXCEPT !.op = "deleteRoute", !.chatId = id]]
          /\ chatStore' = IF given THEN StoreDelete(chatStore, id) ELSE chatStore
          /\ route' = [route EXCEPT ![c] =
                         [NoRoute EXCEPT !.stage = "responded", !.endpoint = "delete",
                                         !.hasChatId = given, !.chatId = id,
                                         !.status = IF given THEN 200 ELSE 400,
                                         !.body = IF given
                                                  THEN [NoReply EXCEPT !.kind = "success", !.id = id]
                                                  ELSE [NoReply EXCEPT !.kind = "error",
                                                                       !.error = "Chat ID is required"]]]
    /\ pc' = [pc EXCEPT ![c] = "done"]
    /\ UNCHANGED <<heap, nextId, now, envKey, loc, out, res, hist>>

\* POST delete chat: answers success for any chatId, without a call to the adapter
DeleteChat(c) ==
    /\ MayStart(c)
    /\ \E given \in BOOLEAN, id \in ClientIds :
          /\ req' = [req EXCEPT ![c] = [NoReq EXCEPT !.op = "deleteRoute", !.chatId = id]]
          /\ route' = [route EXCEPT ![c] =
                         [NoRoute EXCEPT !.stage = "responded", !.endpoint = "delete",
                                         !.hasChatId = given, !.chatId = id,
                                         !.status = IF given THEN 200 ELSE 400,
                                         !.body = IF given
                                                  THEN [NoReply EXCEPT !.kind = "success", !.id = id]
                                                  ELSE [NoReply EXCEPT !.kind = "error",
                                                                       !.error = "Chat ID is required"]]]
    /\ pc' = [pc EXCEPT ![c] = "done"]
    /\ UNCHANGED <<chatStore, heap, nextId, now, envKey, loc, out, res, hist>>

\* POST fork chat: getChat, then a copy under a new id that goes into the
\* response only
ForkChat(c) ==
    /\ MayStart(c)
    /\ \E given \in BOOLEAN, id \in ClientIds :
          LET rt == [NoRoute EXCEPT !.stage = "responded", !.endpoint = "fork",
                                    !.hasChatId = given, !.chatId = id]
          IN  IF ~given
              THEN /\ req' = [req EXCEPT ![c] = [NoReq EXCEPT !.op = "forkRoute", !.chatId = id]]
                   /\ route' = [route EXCEPT ![c] =
                                  [rt EXCEPT !.status = 400,
                                             !.body = [NoReply EXCEPT !.kind = "error",
                                                          !.error = "Chat ID is required"]]]
                   /\ UNCHANGED <<res, nextId>>
              ELSE /\ req' = [req EXCEPT ![c] = [NoReq EXCEPT !.op = "getChat", !.chatId = id]]
                   /\ IF StoreHas(chatStore, id)
                      THEN /\ res' = [res EXCEPT ![c] =
                                        [NoRes EXCEPT !.kind = "chat",
                                                      !.chat = StoreGet(chatStore, id),
                                                      !.messages = GetChat(id).messages]]
                           /\ nextId' = nextId + 1
                           /\ route' = [route EXCEPT ![c] =
                                          [rt EXCEPT !.status = 200,
                                                     !.body = [NoReply EXCEPT !.kind = "chat",
                                                                  !.id = nextId,
                                                                  !.messages = GetChat(id).messages]]]
                      ELSE /\ res' = [res EXCEPT ![c] = [NoRes EXCEPT !.kind = "null"]]
                           /\ route' = [route EXCEPT ![c] =
                                          [rt EXCEPT !.status = 404,
                                                     !.body = [NoReply EXCEPT !.kind = "error",
                                                                  !.error = "Original chat not found"]]]
                           /\ UNCHANGED nextId
    /\ pc' = [pc EXCEPT ![c] = "done"]
    /\ UNCHANGED <<chatStore, heap, now, envKey, loc, out, hist>>

\* chats created and continued through the adapter, and the delete and fork
\* endpoints called in between and afterwards
EndpointCalls == 1..MaxEndpointCalls

NextEndpoints ==
    \/ \E c \in EndpointCalls : CreateKeyed(c)
    \/ \E c \in EndpointCalls : SendKeyed(c)
    \/ \E c \in EndpointCalls : FetchOkCore(c)
    \/ \E c \in EndpointCalls : FetchOkStream(c)
    \/ \E c \in EndpointCalls : ReadDone(c)
    \/ \E c \in EndpointCalls : DeleteChat(c)
    \/ \E c \in EndpointCalls : ForkChat(c)

SpecEndpoints == InitTurns /\ [][NextEndpoints]_vars

\* ---- sync mode against any 200 response ----
\* what response.choices[0] throws when the body has no choices
NoChoicesError ==
    [NoError EXCEPT !.text = "TypeError: Cannot read properties of undefined (reading '0')"]

\* sync mode createChat by a caller that brings a key
CreateSync(c) ==
    /\ MayStart(c)
    /\ \E m \in MessageTexts, k \in GivenKeys :
          BeginCreate(c, [op |-> "createChat", chatId |-> UnknownId, message |-> m,
                          mode |-> "sync", apiKey |-> k])
    /\ UNCHANGED route

\* sync mode sendMessage on a stored chat by a caller that brings a key
SendSync(c) ==
    /\ MayStart(c)
    /\ \E id \in StoreKeys(chatStore), m \in MessageTexts, k \in GivenKeys :
          BeginSendExisting(c, [op |-> "sendMessage", chatId |-> id, message |-> m,
                                mode |-> "sync", apiKey |-> k])
    /\ UNCHANGED route

\* sync mode: the response is ok and its body has no choices: response.choices[0]
\* throws before the assistant message is built
FetchOkNoChoices(c) ==
    /\ pc[c] = "fetch"
    /\ req[c].mode = "sync"
    /\ Throw(c, NoChoicesError)
    /\ hist' = [hist EXCEPT ![c].body = NoBody]
    /\ UNCHANGED <<chatStore, heap, nextId, now, envKey, req, loc, out, route>>

\* chats created and continued in sync mode, the upstream answering 200 with a
\* body of any shape
SyncCalls == 1..MaxSyncCalls

NextSync ==
    \/ \E c \in SyncCalls : CreateSync(c)
    \/ \E c \in SyncCalls : SendSync(c)
    \/ \E c \in SyncCalls : FetchOkSync(c)
    \/ \E c \in SyncCalls : FetchOkNoChoices(c)

SpecSync == InitTurns /\ [][NextSync]_vars

\* ---- POST /api/chat ----
\* session?.user?.id: "" for the anonymous caller
Users == {"", "user-1"}

\* the count query of the rate limiter: below the entitlement, at or above it,
\* or the database throws
RateOutcomes == {"under", "over", "failed"}

\* createChatOwnership / createAnonymousChatLog: done, or the database throws
WriteOutcomes == {"ok", "failed"}

PROCESS_ERROR == "Failed to process request"

\* the calls that are requests to POST /api/chat; call 1 is a direct call of the
\* adapter that may have stored a chat before
RouteCalls == 2..(MaxRouteCalls + 1)

\* a request may start once the requests before it have started
RouteMayStart(c) ==
    route[c].stage = "idle" /\ \A d \in RouteCalls : d < c => route[d].stage # "idle"

\* from the entry of POST to the end of rate limiting
RouteAdmit(c) ==
    /\ RouteMayStart(c)
    /\ \E user \in Users, m \in MessageTexts \cup {""}, given \in BOOLEAN, id \in ClientIds,
          streaming \in BOOLEAN, k \in GivenKeys, rate \in RateOutcomes :
          LET rt == [NoRoute EXCEPT !.endpoint = "chat", !.user = user, !.message = m,
                                    !.hasChatId = given, !.chatId = id,
                                    !.streaming = streaming, !.apiKey = k]
          IN  route' = [route EXCEPT ![c] =
                  IF m = ""
                  THEN [rt EXCEPT !.stage = "responded", !.status = 400,
                                  !.body = [NoReply EXCEPT !.kind = "error",
                                                           !.error = "Message is required"]]
                  ELSE IF rate = "over"
                  THEN [rt EXCEPT !.stage = "responded", !.rate = rate,
                                  !.body = [NoReply EXCEPT !.kind = "rate_limit",
                                                           !.error = "rate_limit:chat"]]
                  ELSE [rt EXCEPT !.stage = "admitted", !.rate = rate]]
    /\ UNCHANGED <<chatStore, heap, nextId, now, envKey, pc, req, loc, out, res, hist>>

\* the call of the adapter: sendMessage when the request has a chatId, else createChat
RouteCall(c) ==
    /\ route[c].stage = "admitted"
    /\ pc[c] = "idle"
    /\ LET r == [op |-> IF route[c].hasChatId THEN "sendMessage" ELSE "createChat",
                 chatId |-> IF route[c].hasChatId THEN route[c].chatId ELSE UnknownId,
                 message |-> route[c].message,
                 mode |-> IF route[c].streaming THEN "experimental_stream" ELSE "sync",
                 apiKey |-> route[c].apiKey]
       IN  IF route[c].hasChatId /\ StoreHas(chatStore, route[c].chatId)
           THEN BeginSendExisting(c, r)
           ELSE BeginCreate(c, r)
    /\ route' = [route EXCEPT ![c].stage = "adapter"]

\* a handler in which a failed ownership or log write fails the request
RouteReturn_WriteFailureFails(c) ==
    /\ route[c].stage = "adapter"
    /\ pc[c] \in {"reading", "done", "failed"}
    /\ IF res[c].kind = "stream"
       THEN Respond(c, 200, [NoReply EXCEPT !.kind = "stream"])
       ELSE IF res[c].kind = "error"
       THEN Respond(c, 500, [NoReply EXCEPT !.kind = "error", !.error = PROCESS_ERROR,
                                            !.details = res[c].error.text])
       ELSE \E w \in WriteOutcomes :
               route' = [route EXCEPT
                  ![c].stage = "responded",
                  ![c].write = IF route[c].hasChatId THEN "none" ELSE w,
                  ![c].status = IF ~route[c].hasChatId /\ w = "failed" THEN 500 ELSE 200,
                  ![c].body = IF ~route[c].hasChatId /\ w = "failed"
                              THEN [NoReply EXCEPT !.kind = "error", !.error = PROCESS_ERROR]
                              ELSE [NoReply EXCEPT !.kind = "chat",
                                                   !.id = heap[res[c].chat].id,
                                                   !.messages = heap[res[c].chat].messages]]
    /\ UNCHANGED <<chatStore, heap, nextId, now, envKey, pc, req, loc, out, res, hist>>

\* a handler that records the new conversation of a streaming request as well
RouteReturn_StreamRecorded(c) ==
    /\ route[c].stage = "adapter"
    /\ pc[c] \in {"reading", "done", "failed"}
    /\ IF res[c].kind = "error"
       THEN Respond(c, 500, [NoReply EXCEPT !.kind = "error", !.error = PROCESS_ERROR,
                                            !.details = res[c].error.text])
       ELSE \E w \in WriteOutcomes :
               route' = [route EXCEPT
                  ![c].stage = "responded",
                  ![c].write = IF route[c].hasChatId THEN "none" ELSE w,
                  ![c].status = 200,
                  ![c].body = IF res[c].kind = "stream"
                              THEN [NoReply EXCEPT !.kind = "stream"]
                              ELSE [NoReply EXCEPT !.kind = "chat",
                                                   !.id = heap[res[c].chat].id,
                                                   !.messages = heap[res[c].chat].messages]]
    /\ UNCHANGED <<chatStore, heap, nextId, now, envKey, pc, req, loc, out, res, hist>>

\* the adapter has returned or thrown: the stream goes out as it is; a chat of a
\* new conversation is recorded in the database, and goes out whether or not
\* that worked; what the adapter threw goes out as a 500
RouteReturn(c) ==
    /\ route[c].stage = "adapter"
    /\ pc[c] \in {"reading", "done", "failed"}
    /\ IF res[c].kind = "stream"
       THEN Respond(c, 200, [NoReply EXCEPT !.kind = "stream"])
       ELSE IF res[c].kind = "error"
       THEN Respond(c, 500, [NoReply EXCEPT !.kind = "error", !.error = PROCESS_ERROR,
                                            !.details = res[c].error.text])
       ELSE \E w \in WriteOutcomes :
               route' = [route EXCEPT
                  ![c].stage = "responded",
                  ![c].write = IF route[c].hasChatId THEN "none" ELSE w,
                  ![c].status = 200,
                  ![c].body = [NoReply EXCEPT !.kind = "chat",
                                              !.id = heap[res[c].chat].id,
                                              !.messages = heap[res[c].chat].messages]]
    /\ UNCHANGED <<chatStore, heap, nextId, now, envKey, pc, req, loc, out, res, hist>>

\* the requests for which createChatOwnership or createAnonymousChatLog went through
Recorded(rt) == {c \in Calls : rt[c].write = "ok"}

\* getChatCountByUserId / getChatCountByIP: the records of this caller (the
\* anonymous caller stands for its IP address)
ChatCount(rt, user) == Cardinality({c \in Recorded(rt) : rt[c].user = user})

\* requests to POST /api/chat against a well-behaved upstream that may refuse,
\* with or without a chat in the store
NextRoute ==
    \/ CreateSync(1)
    \/ FetchOkCore(1)
    \/ \E c \in RouteCalls : RouteAdmit(c)
    \/ \E c \in RouteCalls : RouteCall(c)
    \/ \E c \in RouteCalls : FetchFail(c)
    \/ \E c \in RouteCalls : FetchOkCore(c)
    \/ \E c \in RouteCalls : FetchOkStream(c)
    \/ \E c \in RouteCalls : ReadDone(c)
    \/ \E c \in RouteCalls : RouteReturn(c)

SpecRoute == InitTurns /\ [][NextRoute]_vars

TypeOK ==
    /\ pc \in [Calls -> {"idle", "fetch", "reading", "done", "failed"}]
    /\ nextId \in Nat
    /\ now \in Nat
    /\ \A i \in 1..Len(chatStore) : chatStore[i].ref \in DOMAIN heap

\* ---------------------------------------------------------------------------
\* Properties
\* ---------------------------------------------------------------------------
MsgIds(msgs) == {msgs[i].id : i \in 1..Len(msgs)}

\* where the message with this id stands (guarded by id \in MsgIds(msgs))
Pos(msgs, id) == CHOOSE i \in 1..Len(msgs) : msgs[i].id = id

CountRole(msgs, role) == Cardinality({i \in 1..Len(msgs) : msgs[i].role = role})

\* user, assistant, user, assistant, ...
Alternating(msgs) ==
    \A i \in 1..Len(msgs) : msgs[i].role = (IF i % 2 = 1 THEN "user" ELSE "assistant")

\* the chat the call works on
ChatOf(c) == heap[loc[c].chat]

Started(c) == pc[c] # "idle"

\* the call ran createChat: it was createChat, or sendMessage with an id not stored
Creates(c) == Started(c) /\ ~hist[c].existing

\* the call threw (as opposed to returning a stream that failed later)
Threw(c) == pc[c] = "failed" /\ res[c].kind = "error"

\* C1: a sync createChat whose upstream call succeeds returns a chat whose
\* messages are exactly the user message with the given text and the assistant
\* message with the reply, and at that moment getChat with the returned id yields
\* the same messages.
C1_SyncCreateReturnsTurn ==
    [][\A c \in Calls :
          (pc[c] = "fetch" /\ pc'[c] = "done" /\ req[c].op = "createChat"
           /\ req[c].mode = "sync")
          => /\ res'[c].kind = "chat"
             /\ Len(res'[c].messages) = 2
             /\ res'[c].messages[1].role = "user"
             /\ res'[c].messages[1].content = req[c].message
             /\ res'[c].messages[2].role = "assistant"
             /\ (hist'[c].body.content # ""
                   => res'[c].messages[2].content = hist'[c].body.content)
             /\ GetChat(heap[loc[c].chat].id)'.id = heap'[res'[c].chat].id
             /\ GetChat(heap[loc[c].chat].id)'.messages = res'[c].messages]_vars

C1_Witness ==
    \E c \in Calls :
        /\ pc[c] = "done" /\ req[c].op = "createChat" /\ req[c].mode = "sync"
        /\ req[c].message = "hello"
        /\ hist[c].body.content = "hi there"
        /\ GetChat(ChatOf(c).id).messages = res[c].messages
        /\ Len(res[c].messages) = 2

C10_FailedCreateState ==
    \A c \in Calls :
        (Threw(c) /\ Creates(c))
        => /\ ~StoreHas(chatStore, ChatOf(c).id)
           /\ \A i \in 1..Len(chatStore) : chatStore[i].ref # loc[c].chat
           /\ (hist[c].status # 0 => res[c].error.status = hist[c].status)

C10_FailedCreateStep ==
    [][\A c \in Calls :
          (pc[c] \in {"idle", "fetch"} /\ pc'[c] = "failed" /\ ~hist'[c].existing)
          => /\ chatStore' = chatStore
             /\ \A i \in 1..Len(chatStore) :
                   heap'[chatStore[i].ref] = heap[chatStore[i].ref]]_vars

\* C10: when createChat (sync or stream) fails for want of a key or on a
\* non-success status, the error carries the upstream status, the store has no
\* entry for the id the call allocated, and the failing step leaves the store
\* and every stored chat as they were.
C10_FailedCreateLeavesStore == []C10_FailedCreateState /\ C10_FailedCreateStep

C10_Witness ==
    \E c \in Calls :
        /\ Threw(c) /\ req[c].op = "createChat"
        /\ hist[c].status = 401 /\ res[c].error.status = 401
        /\ ~StoreHas(chatStore, ChatOf(c).id)

\* the call ran sendMessage on a stored chat
Sends(c) == Started(c) /\ hist[c].existing

\* the messages getChat shows for the chat the call was sent to
Shown(c) == GetChat(req[c].chatId).messages

\* the sendMessage calls made so far on the stored chat with this id
SendsOn(chatId) == {c \in Calls : Sends(c) /\ req[c].chatId = chatId}

\* every sendMessage so far on this chat has succeeded, one after the other
Sequential(chatId) ==
    \A c \in SendsOn(chatId) : pc[c] = "done" /\ hist[c].overlap = {}

\* C2 as stated: after N >= 1 sequential successful sendMessage calls against
\* one chat id, the chat has exactly N user and exactly N assistant messages,
\* alternating user, assistant.
C2_NSendsGiveNTurns ==
    \A k \in StoreKeys(chatStore) :
        LET n == Cardinality(SendsOn(k))
            msgs == GetChat(k).messages
        IN  (n >= 1 /\ Sequential(k))
            => /\ CountRole(msgs, "user") = n
               /\ CountRole(msgs, "assistant") = n
               /\ Alternating(msgs)

\* C2 as amended: after a successful creation and N >= 1 sequential successful
\* sendMessage calls against its id, the chat has exactly N + 1 user and exactly
\* N + 1 assistant messages, alternating user, assistant.
C2_NSendsGiveNPlusOneTurns ==
    \A k \in StoreKeys(chatStore) :
        LET n == Cardinality(SendsOn(k))
            msgs == GetChat(k).messages
        IN  (n >= 1 /\ Sequential(k))
            => /\ CountRole(msgs, "user") = n + 1
               /\ CountRole(msgs, "assistant") = n + 1
               /\ Len(msgs) = 2 * (n + 1)
               /\ Alternating(msgs)

C2_Witness ==
    \E k \in StoreKeys(chatStore) :
        /\ Cardinality(SendsOn(k)) = 2
        /\ Sequential(k)
        /\ Len(GetChat(k).messages) = 6

\* two sendMessage calls on one chat that overlapped and have both succeeded
OverlappedPair(c, d) ==
    /\ c # d /\ Sends(c) /\ Sends(d)
    /\ req[c].chatId = req[d].chatId
    /\ d \in hist[c].overlap
    /\ pc[c] = "done" /\ pc[d] = "done"

\* the stored chat shows both messages of the call's turn
TurnShown(c) == {loc[c].userMsg, hist[c].asstMsg} \subseteq MsgIds(Shown(c))

\* the stored chat shows neither message of the call's turn
TurnLost(c) == {loc[c].userMsg, hist[c].asstMsg} \cap MsgIds(Shown(c)) = {}

\* the assistant reply stands directly behind the user message it answers
ReplyFollows(c) ==
    /\ TurnShown(c)
    /\ Pos(Shown(c), hist[c].asstMsg) = Pos(Shown(c), loc[c].userMsg) + 1

\* C3 as stated: two overlapping sendMessage calls on one chat leave the stored
\* chat as if they had run one after the other: each assistant reply directly
\* follows the user message it answers.
C3_OverlapIsSerial ==
    \A c, d \in Calls : OverlappedPair(c, d) => ReplyFollows(c) /\ ReplyFollows(d)

\* C3 as amended: two overlapping sendMessage calls on one chat are not
\* serialised: once both have succeeded the stored chat holds each call's user
\* message and, somewhere behind it, its assistant reply, each exactly once; a
\* reply need not stand directly behind the message it answers.
C3_OverlapKeepsOrderWithinTurn ==
    \A c, d \in Calls :
        OverlappedPair(c, d)
        => /\ TurnShown(c)
           /\ Pos(Shown(c), loc[c].userMsg) < Pos(Shown(c), hist[c].asstMsg)
           /\ Cardinality({i \in 1..Len(Shown(c)) :
                             Shown(c)[i].id \in {loc[c].userMsg, hist[c].asstMsg}}) = 2

C3_Witness ==
    \E c, d \in Calls :
        /\ OverlappedPair(c, d)
        /\ TurnShown(c)
        /\ ~ReplyFollows(c)
        /\ ~Alternating(Shown(c))

\* C4 as stated: of two overlapping sendMessage calls on one chat that have both
\* completed, the stored chat lacks the turn of the one that wrote first.
C4_LaterWriteWins ==
    \A c, d \in Calls : OverlappedPair(c, d) => TurnLost(c) \/ TurnLost(d)

\* C4 as amended: two overlapping sendMessage calls on one chat work on the one
\* stored chat object, and once both have completed the stored chat shows the
\* user and the assistant message of both: neither store write discards a turn.
C4_NoTurnDiscarded ==
    \A c, d \in Calls :
        OverlappedPair(c, d)
        => /\ loc[c].chat = loc[d].chat
           /\ StoreGet(chatStore, req[c].chatId) = loc[c].chat
           /\ TurnShown(c) /\ TurnShown(d)
           /\ Cardinality({loc[c].userMsg, hist[c].asstMsg,
                            loc[d].userMsg, hist[d].asstMsg}) = 4
           /\ Len(Shown(c)) >= Len(hist[c].pre) + 3

C4_Witness ==
    \E c, d \in Calls :
        /\ OverlappedPair(c, d)
        /\ hist[c].pre = hist[d].pre \/ Len(hist[d].pre) = Len(hist[c].pre) + 1
        /\ TurnShown(c) /\ TurnShown(d)

\* C5 as stated: a sendMessage on a stored chat whose upstream call fails leaves
\* the stored chat without the user message of that call.
C5_FailedSendNotShown ==
    \A c \in Calls : (Threw(c) /\ Sends(c)) => loc[c].userMsg \notin MsgIds(Shown(c))

\* C5 as amended: a sendMessage on a stored chat whose upstream call fails makes
\* no store write and appends no assistant message, but its user message was
\* appended to the stored chat object itself, so getChat shows the unanswered
\* user message.
C5_FailedSendLeavesUserMessage ==
    \A c \in Calls :
        (Threw(c) /\ Sends(c))
        => /\ hist[c].writes = 0
           /\ hist[c].pushes = 0
           /\ StoreGet(chatStore, req[c].chatId) = loc[c].chat
           /\ loc[c].userMsg \in MsgIds(Shown(c))
           /\ Shown(c)[Pos(Shown(c), loc[c].userMsg)].role = "user"

C5_Witness ==
    \E c \in Calls :
        /\ Threw(c) /\ Sends(c)
        /\ hist[c].status = 401
        /\ Len(Shown(c)) = Len(hist[c].pre) + 1
        /\ Shown(c)[Len(Shown(c))].id = loc[c].userMsg

\* how often the message with this id stands in msgs
Occurrences(msgs, id) == Cardinality({i \in 1..Len(msgs) : msgs[i].id = id})

\* the calls that complete their turn in this step
Completing == {c \in Calls : pc[c] # "done" /\ pc'[c] = "done"}

C6_CommittedState ==
    \A c \in Calls :
        pc[c] = "done"
        => /\ hist[c].pushes = 1
           /\ hist[c].writes = 1
           /\ Occurrences(ChatOf(c).messages, hist[c].asstMsg) = 1
           /\ ChatOf(c).messages[Pos(ChatOf(c).messages, hist[c].asstMsg)].role = "assistant"
           /\ StoreHas(chatStore, ChatOf(c).id)
           /\ StoreGet(chatStore, ChatOf(c).id) = loc[c].chat

C6_CommittedStep ==
    [][\A r \in DOMAIN heap :
          /\ CountRole(heap'[r].messages, "assistant")
               = CountRole(heap[r].messages, "assistant")
                 + Cardinality({c \in Completing : loc[c].chat = r})
          /\ \A c \in Completing :
                /\ Len(heap'[loc[c].chat].messages) = Len(heap[loc[c].chat].messages) + 1
                /\ StoreGet(chatStore', heap[loc[c].chat].id) = loc[c].chat]_vars

\* C6: every turn that completes (a sync call, or a stream whose upstream
\* closes) is committed exactly once: the step that completes it appends exactly
\* one assistant message to the chat and writes the chat to the store, no other
\* step appends an assistant message, and the completed turn's assistant message
\* stands exactly once in the stored chat, however many chunks were read.
C6_CommittedOnce == []C6_CommittedState /\ C6_CommittedStep

C6_Witness ==
    \E c \in Calls :
        /\ pc[c] = "done"
        /\ req[c].mode = "experimental_stream"
        /\ hist[c].reads >= 2
        /\ Occurrences(GetChat(ChatOf(c).id).messages, hist[c].asstMsg) = 1

\* the content of the message_delta events, concatenated in emission order
RECURSIVE DeltaText(_)
DeltaText(events) ==
    IF events = <<>> THEN ""
    ELSE (IF Head(events).type = "message_delta" THEN Head(events).content ELSE "")
         \o DeltaText(Tail(events))

\* where chat_complete stands among the events of the call's outbound stream
Completes(c) == {i \in 1..Len(out[c].events) : out[c].events[i].type = "chat_complete"}

\* the chat carried by the event
Carried(ev) == ev.chat[1]

\* C7: on a stream that emits chat_complete, the content of the message_delta
\* events concatenated in emission order is the content of the last message, an
\* assistant message, of the chat that chat_complete carries.
C7_DeltasMakeFinalMessage ==
    \A c \in Calls :
        \A i \in Completes(c) :
            LET msgs == Carried(out[c].events[i]).messages
            IN  /\ msgs # <<>>
                /\ msgs[Len(msgs)].role = "assistant"
                /\ msgs[Len(msgs)].content = DeltaText(out[c].events)

C7_Witness ==
    \E c \in Calls :
        /\ Completes(c) # {}
        /\ hist[c].whole # ""
        /\ hist[c].sentinel
        /\ DeltaText(out[c].events) # ""

\* C8 as stated: on every outbound stream whose upstream has closed without
\* error, chat_complete has been emitted exactly once.
C8_CompleteOnEveryClose ==
    \A c \in Calls : hist[c].upstream = "closed" => Cardinality(Completes(c)) = 1

C8_CompleteState ==
    \A c \in Calls :
        LET ev == out[c].events
        IN  /\ hist[c].upstream = "closed"
               => Cardinality(Completes(c)) = (IF out[c].cancelled THEN 0 ELSE 1)
            /\ hist[c].upstream # "closed" => Completes(c) = {}
            /\ \A i \in Completes(c) :
                  LET msgs == Carried(ev[i]).messages
                  IN  /\ i = Len(ev)
                      /\ out[c].state = "closed"
                      /\ msgs # <<>>
                      /\ msgs[Len(msgs)].id = hist[c].asstMsg
                      /\ msgs[Len(msgs)].role = "assistant"

C8_CompleteStep ==
    [][\A c \in Calls :
          /\ (out[c].state = "closed" /\ ~out[c].cancelled) => out'[c] = out[c]
          /\ (Len(out'[c].events) > Len(out[c].events)
              /\ out'[c].events[Len(out'[c].events)].type = "chat_complete")
             => /\ hist[c].upstream = "open" /\ hist'[c].upstream = "closed"
                /\ StoreHas(chatStore', heap[loc[c].chat].id)
                /\ Carried(out'[c].events[Len(out'[c].events)])
                     = heap'[StoreGet(chatStore', heap[loc[c].chat].id)]]_vars

\* C8 as amended: on every outbound stream whose upstream closes without error
\* and whose consumer has not gone away, chat_complete is emitted exactly once
\* (never if the consumer went away first), only in the step in which the
\* upstream closes (not when the sentinel is read), after every message_delta
\* and as the last event, with which the stream closes; the chat it carries ends
\* with the appended assistant message and is the chat written to the store.
C8_CompleteOnceUnlessCancelled == []C8_CompleteState /\ C8_CompleteStep

C8_Witness ==
    \E c \in Calls :
        /\ hist[c].upstream = "closed"
        /\ ~out[c].cancelled
        /\ hist[c].sentinel
        /\ Len(out[c].events) >= 2
        /\ Completes(c) = {Len(out[c].events)}

\* C9 as stated: once an upstream read has failed, the outbound stream is in
\* the error state.
C9_ReadErrorErrorsStream ==
    \A c \in Calls : hist[c].upstream = "error" => out[c].state = "errored"

\* C9 as amended: once an upstream read has failed, the outbound stream is in
\* the error state unless its consumer had gone away before (then it stays
\* closed); no chat_complete is on it, no assistant message was appended and no
\* store write was made for the turn, whatever was emitted before the failure.
C9_ReadErrorCommitsNothing ==
    \A c \in Calls :
        hist[c].upstream = "error"
        => /\ out[c].state = (IF out[c].cancelled THEN "closed" ELSE "errored")
           /\ Completes(c) = {}
           /\ hist[c].pushes = 0
           /\ hist[c].writes = 0
           /\ loc[c].assistantMessageId \notin MsgIds(ChatOf(c).messages)
           /\ Creates(c) => ~StoreHas(chatStore, ChatOf(c).id)

C9_Witness ==
    \E c \in Calls :
        /\ hist[c].upstream = "error"
        /\ out[c].state = "errored"
        /\ Len(out[c].events) >= 1
        /\ loc[c].assistantMessage # ""

\* the call ran sendMessage with an id that was not stored
Fallback(c) == Started(c) /\ req[c].op = "sendMessage" /\ ~hist[c].existing

C11_FallbackState ==
    /\ ~StoreHas(chatStore, UnknownId)
    /\ \A c \in Calls :
          Fallback(c)
          => /\ ChatOf(c).id # req[c].chatId
             /\ \A d \in Calls \ {c} : Started(d) => ChatOf(d).id # ChatOf(c).id
             /\ loc[c].request = <<OpenRouterMessage("system", SYSTEM_PROMPT),
                                   OpenRouterMessage("user", req[c].message)>>
             /\ ChatOf(c).messages[1].id = loc[c].userMsg
             /\ ChatOf(c).messages[1].role = "user"
             /\ ChatOf(c).messages[1].content = req[c].message
             /\ pc[c] = "done"
                => /\ Len(ChatOf(c).messages) = 2
                   /\ ChatOf(c).messages[2].role = "assistant"
                   /\ GetChat(ChatOf(c).id) = ChatOf(c)
                   /\ (req[c].mode = "sync") = (res[c].kind = "chat")
                   /\ (req[c].mode = "experimental_stream") = (res[c].kind = "stream")

C11_FallbackStep ==
    [][\A c \in Calls :
          (pc[c] = "idle" /\ pc'[c] # "idle" /\ req'[c].op = "sendMessage"
           /\ ~StoreHas(chatStore, req'[c].chatId))
          => /\ loc'[c].chat \notin DOMAIN heap
             /\ heap'[loc'[c].chat]
                  = NewChat(nextId, now, ChatMessage(nextId + 1, "user", req'[c].message, now))
             /\ chatStore' = chatStore
             /\ ~hist'[c].existing]_vars

\* C11: sendMessage with an id that is not stored does what createChat does with
\* the same message, mode and key: it works on a newly allocated chat whose id
\* differs from the requested id and from every other chat's, holding only the
\* new turn; the store never gets an entry under the requested id, so a further
\* sendMessage with the same id creates another chat.
C11_UnknownIdCreates == []C11_FallbackState /\ C11_FallbackStep

C11_Witness ==
    \E c, d \in Calls :
        /\ c # d /\ Fallback(c) /\ Fallback(d)
        /\ req[c].chatId = req[d].chatId
        /\ pc[c] = "done" /\ pc[d] = "done"
        /\ ChatOf(c).id # ChatOf(d).id
        /\ StoreKeys(chatStore) = {ChatOf(c).id, ChatOf(d).id}

IsPrefix(a, b) == Len(a) <= Len(b) /\ SubSeq(b, 1, Len(a)) = a

\* the call that created the chat stored under this id
CreatorOf(k) == {c \in Calls : Creates(c) /\ ChatOf(c).id = k}

C12_StartsWithFirstUser ==
    \A k \in StoreKeys(chatStore) :
        /\ GetChat(k).messages # <<>>
        /\ GetChat(k).messages[1].role = "user"
        /\ \A c \in CreatorOf(k) : GetChat(k).messages[1].id = loc[c].userMsg

C12_GrowsStep ==
    [][\A k \in StoreKeys(chatStore) :
          /\ StoreHas(chatStore', k)
          /\ IsPrefix(GetChat(k).messages, GetChat(k)'.messages)]_vars

\* C12: every stored chat's message sequence begins with the user message
\* inserted at creation, and every step, of failed and overlapping calls too,
\* leaves each stored chat's earlier sequence as a prefix of the later one: no
\* message is removed, replaced or reordered.
C12_MessagesOnlyGrow == []C12_StartsWithFirstUser /\ C12_GrowsStep

C12_Witness ==
    \E c, d \in Calls :
        /\ c # d /\ Sends(c) /\ Sends(d)
        /\ d \in hist[c].overlap
        /\ Threw(c) /\ pc[d] = "done"
        /\ Len(Shown(d)) = 5
        /\ CreatorOf(req[d].chatId) # {}

\* C13: no chat, stored or being worked on, and no chat sent in chat_complete
\* holds a message with role system; the fixed system message is the first
\* element of every request sent upstream and stands nowhere else in it.
C13_SystemMessageNeverStored ==
    /\ \A r \in DOMAIN heap :
          \A i \in 1..Len(heap[r].messages) : heap[r].messages[i].role # "system"
    /\ \A c \in Calls :
          /\ \A i \in Completes(c) :
                \A j \in 1..Len(Carried(out[c].events[i]).messages) :
                    Carried(out[c].events[i]).messages[j].role # "system"
          /\ Started(c)
             => /\ loc[c].request[1] = [role |-> "system", content |-> SYSTEM_PROMPT]
                /\ \A i \in 2..Len(loc[c].request) : loc[c].request[i].role # "system"

C13_Witness ==
    \E c \in Calls :
        /\ Sends(c) /\ pc[c] = "done"
        /\ Len(loc[c].request) >= 4
        /\ loc[c].request[1].role = "system"
        /\ Len(Shown(c)) >= 4
        /\ \E d \in Calls : Completes(d) # {}

\* what the request carries of a message
Sent(msg) == [role |-> msg.role, content |-> msg.content]

C14_RequestState ==
    \A c \in Calls :
        Sends(c)
        => LET rq == loc[c].request
               pre == hist[c].pre
           IN  /\ Len(rq) = Len(pre) + 2
               /\ rq[1] = [role |-> "system", content |-> SYSTEM_PROMPT]
               /\ \A i \in 1..Len(pre) : rq[i + 1] = Sent(pre[i])
               /\ rq[Len(rq)] = [role |-> "user", content |-> req[c].message]
               /\ ChatOf(c).messages[Len(pre) + 1].id = loc[c].userMsg

C14_RequestStep ==
    [][\A c \in Calls :
          (pc[c] = "idle" /\ pc'[c] # "idle" /\ hist'[c].existing)
          => LET before == GetChat(req'[c].chatId).messages
                 after == heap'[StoreGet(chatStore', req'[c].chatId)].messages
             IN  /\ hist'[c].pre = before
                 /\ Len(after) = Len(before) + 1
                 /\ IsPrefix(before, after)
                 /\ after[Len(after)].id = loc'[c].userMsg
                 /\ Len(loc'[c].request) = Len(after) + 1
                 /\ \A i \in 1..Len(after) : loc'[c].request[i + 1] = Sent(after[i])]_vars

\* C14: the request that sendMessage on a stored chat sends upstream is the
\* system message followed by every message the chat had when the call began,
\* in stored order, followed by the user message of this call, which the call
\* appended to the stored chat before it built the request.
C14_RequestCarriesWholeHistory == []C14_RequestState /\ C14_RequestStep

C14_Witness ==
    \E c \in Calls :
        /\ Sends(c)
        /\ Len(hist[c].pre) >= 4
        /\ Len(loc[c].request) = Len(hist[c].pre) + 2
        /\ loc[c].request[2].content = "hello"
        /\ loc[c].request[3].role = "assistant"

\* the call ran createChat in stream mode
StreamCreates(c) == Creates(c) /\ req[c].mode = "experimental_stream"

C15_AbsentState ==
    \A c \in Calls :
        StreamCreates(c)
        => /\ hist[c].upstream # "closed"
              => /\ ~StoreHas(chatStore, ChatOf(c).id)
                 /\ GetChat(ChatOf(c).id) = NoChat
           /\ hist[c].upstream = "closed" => GetChat(ChatOf(c).id) = ChatOf(c)

C15_FinalizeStep ==
    [][\A c \in Calls :
          (StreamCreates(c) /\ ~StoreHas(chatStore, ChatOf(c).id)
           /\ StoreHas(chatStore', ChatOf(c).id))
          => /\ pc[c] = "reading" /\ pc'[c] = "done"
             /\ hist[c].upstream = "open" /\ hist'[c].upstream = "closed"]_vars

\* C15: for a createChat in stream mode the store has no entry for the new chat
\* id while the call awaits the upstream, after it has returned the stream and
\* while message_delta events are emitted; the entry is written in the step in
\* which the upstream closes, and never if the upstream fails.
C15_StreamCreateStoredAtFinalize == []C15_AbsentState /\ C15_FinalizeStep

C15_Witness ==
    \E c \in Calls :
        /\ StreamCreates(c)
        /\ pc[c] = "reading"
        /\ Len(out[c].events) >= 2
        /\ GetChat(ChatOf(c).id) = NoChat

\* neither the caller nor the process supplies a key
NoKey(c) == req[c].apiKey = "" /\ envKey = ""

\* C16: when neither a caller-supplied key nor a process-wide key is present,
\* the call fails with the key-required error and no fetch is issued, in sync
\* and in stream mode alike: no response, status or stream ever exists for it;
\* and every fetch that is issued carries a key.
C16_NoKeyNoFetch ==
    \A c \in Calls :
        /\ (Started(c) /\ NoKey(c))
           => /\ Threw(c)
              /\ res[c].error.text
                   = "OpenRouter API key is required. Please configure an API key in settings."
              /\ ~loc[c].fetch.issued
              /\ hist[c].status = 0
              /\ hist[c].body = NoBody
              /\ hist[c].upstream = "none"
              /\ out[c].state = "none"
        /\ loc[c].fetch.issued => loc[c].fetch.authorization # ""
        /\ pc[c] \in {"fetch", "reading", "done"} => loc[c].fetch.issued

C16_Witness ==
    \E c, d \in Calls :
        /\ Started(c) /\ NoKey(c) /\ req[c].mode = "sync"
        /\ Started(d) /\ NoKey(d) /\ req[d].mode = "experimental_stream"
        /\ Threw(c) /\ Threw(d)
        /\ ~loc[c].fetch.issued /\ ~loc[d].fetch.issued

\* C17: the key sent upstream is the caller-supplied key whenever the caller
\* supplied one, whether or not a process-wide key exists, and is the
\* process-wide key exactly when the caller supplied none.
C17_CallerKeyFirst ==
    \A c \in Calls :
        /\ (Started(c) /\ req[c].apiKey # "")
           => /\ loc[c].fetch.issued
              /\ loc[c].fetch.authorization = req[c].apiKey
        /\ (Started(c) /\ req[c].apiKey = "" /\ envKey # "")
           => /\ loc[c].fetch.issued
              /\ loc[c].fetch.authorization = envKey
        /\ (loc[c].fetch.issued /\ envKey # req[c].apiKey)
           => ((loc[c].fetch.authorization = envKey) <=> (req[c].apiKey = ""))

C17_Witness ==
    \E c, d \in Calls :
        /\ envKey = "sk-env"
        /\ req[c].apiKey = "sk-user" /\ loc[c].fetch.authorization = "sk-user"
        /\ Started(d) /\ req[d].apiKey = "" /\ loc[d].fetch.authorization = "sk-env"

\* what the error value holds
ErrorHolds(err) == {err.text, err.statusText}

\* the upstream answered the call with a status that is not ok
UpstreamRefused(c) == Threw(c) /\ hist[c].status # 0

ReadStep(c) == pc[c] = "idle" /\ req'[c].op \in {"getChat", "listChats"}

\* C19: getChat and listChats are pure reads: a step of either leaves the store,
\* its keys and their order, and every chat (messages and timestamps) as they
\* were; getChat returns the stored chat for a stored id and null, not an
\* error, for an id that is not stored.
C19_ReadsArePure ==
    [][\A c \in Calls :
          ReadStep(c)
          => /\ chatStore' = chatStore
             /\ StoreKeys(chatStore') = StoreKeys(chatStore)
             /\ \A r \in DOMAIN heap : heap'[r] = heap[r]
             /\ DOMAIN heap' = DOMAIN heap
             /\ pc'[c] = "done"
             /\ res'[c].error = NoError
             /\ req'[c].op = "getChat"
                => IF req'[c].chatId \in StoreKeys(chatStore)
                   THEN /\ res'[c].kind = "chat"
                        /\ heap[res'[c].chat].id = req'[c].chatId
                        /\ res'[c].messages = GetChat(req'[c].chatId).messages
                   ELSE res'[c].kind = "null"]_vars

C19_Witness ==
    \E c, d \in Calls :
        /\ req[c].op = "getChat" /\ res[c].kind = "null"
        /\ req[d].op = "listChats" /\ res[d].kind = "list"
        /\ chatStore # <<>>
        /\ \E e \in Calls : req[e].op = "getChat" /\ res[e].kind = "chat"

\* the ids of the stored chats in the order of the store
ListIds(store) == [i \in 1..Len(store) |-> store[i].key]

C20_ListState ==
    /\ \A i, j \in 1..Len(chatStore) : chatStore[i].key = chatStore[j].key => i = j
    /\ \A c \in Calls :
          req[c].op = "listChats"
          => \A i, j \in 1..Len(res[c].data) : res[c].data[i].id = res[c].data[j].id => i = j

C20_ListStep ==
    [][/\ IsPrefix(ListIds(chatStore), ListIds(chatStore'))
       /\ Len(chatStore') <= Len(chatStore) + 1
       /\ \A c \in Calls :
             (pc[c] = "idle" /\ req'[c].op = "listChats")
             => /\ Len(res'[c].data) = Len(chatStore)
                /\ \A i \in 1..Len(chatStore) :
                      /\ res'[c].data[i].id = chatStore[i].key
                      /\ res'[c].data[i] = GetChat(chatStore[i].key)]_vars

\* C20: listChats returns every stored chat exactly once in the order of the
\* store, which is the order in which the ids were first written: a first write
\* puts the id behind all others and a later write for a stored id leaves every
\* id at its place.
C20_ListInFirstWriteOrder == []C20_ListState /\ C20_ListStep

C20_Witness ==
    \E c \in Calls :
        /\ req[c].op = "listChats"
        /\ Len(res[c].data) = 2
        /\ Len(res[c].data[1].messages) = 4
        /\ Len(res[c].data[2].messages) = 2
        /\ ListIds(chatStore) = <<res[c].data[1].id, res[c].data[2].id>>

\* ---------------------------------------------------------------------------
\* The transcoder, chunk by chunk (SpecStream)
\* ---------------------------------------------------------------------------
\* the call reads a chunk in this step
ReadsChunk(c) == pc[c] = "reading" /\ hist'[c].reads = hist[c].reads + 1

\* the chunk read last
LastChunk(h) == h.log[Len(h.log)]

\* the events the step adds to the call's outbound stream
NewEvents(c) == SubSeq(out'[c].events, Len(out[c].events) + 1, Len(out'[c].events))

\* the chunk holds nothing but records without a fragment
NoFragment(chunk) ==
    /\ chunk.whole = ""
    /\ \A i \in 1..Len(chunk.bytes) : chunk.bytes[i].t = "open" => chunk.bytes[i].c = ""

DataAfterDone(chunk) ==
    \E i, j \in 1..Len(chunk.bytes) :
        i < j /\ chunk.bytes[i] = DONE /\ chunk.bytes[j].t = "open" /\ chunk.whole # ""

\* the assistant message the call has appended to its chat
FinalMessage(c) == ChatOf(c).messages[Pos(ChatOf(c).messages, hist[c].asstMsg)]

C24_SentinelStep ==
    [][\A c \in Calls :
          ReadsChunk(c)
          => LET chunk == LastChunk(hist'[c])
             IN  /\ pc'[c] = "reading"
                 /\ hist'[c].pushes = 0
                 /\ hist'[c].upstream = "open"
                 /\ out'[c].state = out[c].state
                 /\ chatStore' = chatStore
                 /\ ((hist[c].sentinel \/ DataAfterDone(chunk)) /\ chunk.whole # ""
                     /\ CanEnqueue(out[c]))
                      => /\ NewEvents(c) # <<>>
                         /\ DeltaText(NewEvents(c)) = chunk.whole]_vars

C24_SentinelState ==
    \A c \in Calls :
        /\ hist[c].pushes > 0 => hist[c].upstream = "closed"
        /\ hist[c].upstream = "closed"
             => /\ hist[c].pushes = 1
                /\ FinalMessage(c).content = hist[c].whole
        /\ (pc[c] \in {"reading", "done"} /\ ~out[c].cancelled)
             => DeltaText(out[c].events) = hist[c].whole

Malformed(chunk) == \E i \in 1..Len(chunk.bytes) : chunk.bytes[i].t = "bad"

\* the chunks the call read after the first malformed one
AfterMalformed(h) ==
    LET bad == {i \in 1..Len(h.log) : Malformed(h.log[i])}
        first == CHOOSE i \in bad : \A j \in bad : i <= j
    IN  IF bad = {} THEN <<>> ELSE SubSeq(h.log, first + 1, Len(h.log))

RECURSIVE WholeOf(_)
WholeOf(log) == IF log = <<>> THEN "" ELSE Head(log).whole \o WholeOf(Tail(log))

C25_MalformedStep ==
    [][\A c \in Calls :
          (ReadsChunk(c) /\ Malformed(LastChunk(hist'[c])))
          => LET chunk == LastChunk(hist'[c])
             IN  /\ out'[c].state = out[c].state
                 /\ pc'[c] = "reading"
                 /\ res'[c] = res[c]
                 /\ \A i \in 1..Len(NewEvents(c)) :
                        /\ NewEvents(c)[i].type = "message_delta"
                        /\ NewEvents(c)[i].content # ""
                 /\ DeltaText(out'[c].events) = DeltaText(out[c].events)
                       \o (IF CanEnqueue(out[c]) THEN chunk.whole ELSE "")
                 /\ loc'[c].assistantMessage = loc[c].assistantMessage \o chunk.whole]_vars

C25_MalformedState ==
    \A c \in Calls :
        (pc[c] \in {"reading", "done"} /\ \E i \in 1..Len(hist[c].log) : Malformed(hist[c].log[i]))
        => /\ out[c].state # "errored"
           /\ hist[c].upstream # "error"
           /\ loc[c].assistantMessage = WholeOf(hist[c].log)
           /\ ~out[c].cancelled => DeltaText(out[c].events) = WholeOf(hist[c].log)

\* C25: a data record with malformed JSON is skipped without effect: it emits
\* no event, does not put the outbound stream into the error state and does not
\* change the accumulated reply, and every well-formed record after it, in the
\* same chunk and in later chunks, is still processed.
C25_MalformedIsSkipped == []C25_MalformedState /\ C25_MalformedStep

C25_Witness ==
    \E c \in Calls :
        /\ pc[c] = "reading"
        /\ out[c].state = "readable"
        /\ Len(hist[c].log) = 2
        /\ Malformed(hist[c].log[1])
        /\ hist[c].log[1].whole = "a"
        /\ WholeOf(AfterMalformed(hist[c])) = "b"
        /\ loc[c].assistantMessage = "ab"
        /\ Len(out[c].events) = 2

\* the chunk ends inside a data record / begins inside one
CutHead(chunk) == chunk.bytes # <<>> /\ chunk.bytes[Len(chunk.bytes)].t \in {"open", "pfx"}
CutTail(chunk) == chunk.bytes # <<>> /\ Head(chunk.bytes).t \in {"close", "open"}

\* the fragment of the split record, of which the chunk holds a part
CutFragment(chunk) ==
    LET at == {i \in 1..Len(chunk.bytes) : chunk.bytes[i].t = "open"}
    IN  IF at = {} THEN "" ELSE chunk.bytes[CHOOSE i \in at : TRUE].c

C26_SplitStep ==
    [][\A c \in Calls :
          (ReadsChunk(c) /\ (CutHead(LastChunk(hist'[c])) \/ CutTail(LastChunk(hist'[c]))))
          => /\ NewEvents(c) = <<>>
             /\ out'[c] = out[c]
             /\ loc'[c].assistantMessage = loc[c].assistantMessage]_vars

C26_SplitState ==
    \A c \in Calls :
        pc[c] = "done"
        => /\ FinalMessage(c).content = WholeOf(hist[c].log)
           /\ GetChat(ChatOf(c).id).messages[Len(GetChat(ChatOf(c).id).messages)].content
                 = WholeOf(hist[c].log)

\* C26: a data record that arrives split across two upstream chunks, the split
\* falling inside the record, contributes nothing: neither part produces a
\* message_delta, and the stored assistant reply is the concatenation of the
\* fragments of the records that arrived whole within one chunk, without the
\* content of the split record.
C26_SplitRecordIsLost == []C26_SplitState /\ C26_SplitStep

C26_Witness ==
    \E c \in Calls :
        /\ pc[c] = "done"
        /\ ~out[c].cancelled
        /\ Len(hist[c].log) = 3
        /\ hist[c].log[1].whole = "b"
        /\ CutHead(hist[c].log[2]) /\ CutFragment(hist[c].log[2]) = "a"
        /\ CutTail(hist[c].log[3]) /\ CutFragment(hist[c].log[3]) = ""
        /\ GetChat(ChatOf(c).id).messages[2].content = "b"
        /\ \A i \in 1..Len(out[c].events) : out[c].events[i].content # "a"

\* the consumer of the call's outbound stream goes away in this step
Disconnects(c) == ~out[c].cancelled /\ out'[c].cancelled

C27_DisconnectStep ==
    [][\A c \in Calls :
          /\ Disconnects(c)
               => /\ pc[c] = "reading" /\ pc'[c] = "reading"
                  /\ hist'[c] = hist[c]
                  /\ loc'[c] = loc[c]
          /\ (out[c].cancelled /\ pc[c] = "reading" /\ pc'[c] # "reading")
               => hist'[c].upstream \in {"closed", "error"}
          /\ (out[c].cancelled /\ ReadsChunk(c))
               => /\ pc'[c] = "reading"
                  /\ loc'[c].assistantMessage
                        = loc[c].assistantMessage \o LastChunk(hist'[c]).whole]_vars

C27_DisconnectState ==
    \A c \in Calls :
        (out[c].cancelled /\ hist[c].upstream = "open")
        => /\ pc[c] = "reading"
           /\ out[c].state = "closed"

\* C27: when the outbound consumer disconnects before the upstream has closed,
\* the transcoder keeps reading the upstream until it closes or errors; no
\* disconnect of the consumer stops or cancels the upstream read loop.
C27_DisconnectKeepsReading == []C27_DisconnectState /\ C27_DisconnectStep

C27_Witness ==
    \E c \in Calls :
        /\ pc[c] = "reading"
        /\ out[c].cancelled
        /\ hist[c].upstream = "open"
        /\ Len(hist[c].log) = 2
        /\ out[c].events = <<DeltaEvent("a", loc[c].assistantMessageId)>>
        /\ loc[c].assistantMessage = "ab"

\* C28: a turn whose outbound consumer disconnected early is still committed:
\* when the upstream later closes without error, the assistant message, built
\* from every fragment read, those read after the disconnect included, is
\* appended and the chat is written to the store, although no chat_complete
\* reaches any consumer.
C28_DisconnectedTurnCommitted ==
    \A c \in Calls :
        (out[c].cancelled /\ hist[c].upstream = "closed")
        => /\ pc[c] = "done"
           /\ hist[c].pushes = 1
           /\ hist[c].writes = 1
           /\ StoreHas(chatStore, ChatOf(c).id)
           /\ StoreGet(chatStore, ChatOf(c).id) = loc[c].chat
           /\ LET msgs == GetChat(ChatOf(c).id).messages
              IN  /\ msgs[Len(msgs)].id = hist[c].asstMsg
                  /\ msgs[Len(msgs)].role = "assistant"
                  /\ msgs[Len(msgs)].content = WholeOf(hist[c].log)
           /\ Completes(c) = {}
           /\ out[c].state = "closed"

C28_Witness ==
    \E c \in Calls :
        /\ pc[c] = "done"
        /\ out[c].cancelled
        /\ hist[c].upstream = "closed"
        /\ DeltaText(out[c].events) = "a"
        /\ WholeOf(hist[c].log) = "ab"
        /\ GetChat(ChatOf(c).id).messages[2].content = "ab"
        /\ Completes(c) = {}

\* ---------------------------------------------------------------------------
\* Store invariants (SpecTurns)
\* ---------------------------------------------------------------------------
\* the sendMessage turns on the stored chat k
TurnsOn(k) == {c \in Calls : Started(c) /\ hist[c].existing /\ req[c].chatId = k}

\* of these, the turns still in flight and the turns that failed
OpenOrFailed(k) == {c \in TurnsOn(k) : InFlight(c) \/ pc[c] = "failed"}

\* user messages less assistant messages
Surplus(msgs) == CountRole(msgs, "user") - CountRole(msgs, "assistant")

C29_SurplusState ==
    \A k \in StoreKeys(chatStore) :
        LET msgs == GetChat(k).messages
        IN  /\ CountRole(msgs, "user") >= CountRole(msgs, "assistant")
            /\ Surplus(msgs) = Cardinality(OpenOrFailed(k))
            /\ Surplus(msgs) = 0 <=> \A c \in TurnsOn(k) : pc[c] = "done"

\* a step adds at most one message to a stored chat: a user message when a
\* sendMessage turn starts on it, an assistant message when a turn completes
C29_SurplusStep ==
    [][\A k \in StoreKeys(chatStore) :
          LET old == GetChat(k).messages
              new == heap'[StoreGet(chatStore', k)].messages
          IN  /\ Len(new) <= Len(old) + 1
              /\ CountRole(new, "user") = CountRole(old, "user") + 1
                    <=> \E c \in Calls : pc[c] = "idle" /\ pc'[c] # "idle"
                                         /\ hist'[c].existing /\ req'[c].chatId = k
              /\ CountRole(new, "assistant") = CountRole(old, "assistant") + 1
                    <=> \E c \in TurnsOn(k) : InFlight(c) /\ pc'[c] = "done"]_vars

\* C29: for every stored chat the number of user messages is never below the
\* number of assistant messages, and the difference is the number of
\* sendMessage turns on the chat that are still in flight or have failed; it is
\* 0 exactly when every turn on the chat has completed successfully.
C29_SurplusCountsOpenTurns == []C29_SurplusState /\ C29_SurplusStep

C29_Witness ==
    \E k \in StoreKeys(chatStore) :
        \E d, e \in TurnsOn(k) :
            /\ pc[d] = "failed"
            /\ InFlight(e)
            /\ CountRole(GetChat(k).messages, "user") = 3
            /\ CountRole(GetChat(k).messages, "assistant") = 1

\* the call writes its chat to the store in this step
Writes(c) == hist'[c].writes = hist[c].writes + 1

C30_KeyIsIdState ==
    /\ \A i \in 1..Len(chatStore) : heap[chatStore[i].ref].id = chatStore[i].key
    /\ \A i, j \in 1..Len(chatStore) :
          i # j => /\ chatStore[i].key # chatStore[j].key
                   /\ heap[chatStore[i].ref].id # heap[chatStore[j].ref].id

C30_KeyIsIdStep ==
    [][\A c \in Calls :
          Writes(c)
          => /\ StoreHas(chatStore', heap'[loc[c].chat].id)
             /\ StoreGet(chatStore', heap'[loc[c].chat].id) = loc[c].chat
             /\ \A i \in 1..Len(chatStore') :
                   chatStore'[i].ref = loc[c].chat
                   => chatStore'[i].key = heap'[loc[c].chat].id
             /\ \A k \in StoreKeys(chatStore) :
                   k # heap'[loc[c].chat].id
                   => StoreGet(chatStore', k) = StoreGet(chatStore, k)]_vars

\* C30: in every reachable state every store entry maps its key k to a chat
\* whose id is k, and no two store entries hold the same chat id; no operation
\* writes a chat under a key other than the chat's own id.
C30_KeyIsId == []C30_KeyIsIdState /\ C30_KeyIsIdStep

C30_Witness ==
    /\ Len(chatStore) = 2
    /\ \E c, d, e \in Calls :
          /\ pc[c] = "done" /\ req[c].op = "createChat" /\ req[c].mode = "sync"
          /\ pc[d] = "done" /\ req[d].op = "createChat" /\ req[d].mode = "experimental_stream"
          /\ pc[e] = "done" /\ req[e].op = "sendMessage" /\ req[e].mode = "sync"
          /\ hist[e].existing
          /\ StoreKeys(chatStore) = {ChatOf(c).id, ChatOf(d).id}

\* ---------------------------------------------------------------------------
\* HTTP endpoints (SpecEndpoints, SpecRoute)
\* ---------------------------------------------------------------------------
\* the request of call c has been answered by this endpoint
Answered(c, endpoint) == route[c].stage = "responded" /\ route[c].endpoint = endpoint

C21_EntriesStayStep ==
    [][/\ \A k \in StoreKeys(chatStore) :
             /\ StoreHas(chatStore', k)
             /\ StoreGet(chatStore', k) = StoreGet(chatStore, k)
             /\ heap'[StoreGet(chatStore', k)].id = k
             /\ IsPrefix(GetChat(k).messages, heap'[StoreGet(chatStore', k)].messages)
       /\ \A c \in Calls :
             (route[c].stage = "idle" /\ route'[c].endpoint \in {"delete", "fork"})
             => /\ chatStore' = chatStore
                /\ heap' = heap]_vars

C21_EntriesStayState ==
    \A c \in Calls :
        /\ (Answered(c, "delete") /\ route[c].status = 200)
             => /\ route[c].body.kind = "success"
                /\ route[c].body.id = route[c].chatId
        /\ (Answered(c, "fork") /\ route[c].status = 200)
             => /\ ~StoreHas(chatStore, route[c].body.id)
                /\ StoreHas(chatStore, route[c].chatId)
                /\ GetChat(route[c].chatId).id = route[c].chatId

\* C21: store entries are never deleted: across any sequence of operations,
\* the delete endpoint reporting success and the fork endpoint included, the
\* set of chat ids in the store never loses an element, and getChat for an id
\* that was stored once keeps returning that chat.
C21_EntriesNeverDeleted == []C21_EntriesStayState /\ C21_EntriesStayStep

C21_Witness ==
    \E c, d, e \in Calls :
        /\ pc[c] = "done" /\ req[c].op = "createChat"
        /\ Answered(d, "delete") /\ route[d].status = 200
        /\ route[d].chatId = ChatOf(c).id
        /\ Answered(e, "fork") /\ route[e].status = 200
        /\ route[e].chatId = ChatOf(c).id
        /\ d < e
        /\ StoreKeys(chatStore) = {ChatOf(c).id}
        /\ GetChat(ChatOf(c).id) = ChatOf(c)

\* the response to the request of call c goes out in this step
Returns(c) == route[c].stage = "adapter" /\ route'[c].stage = "responded"

\* the database failed the request of call c, at the count query or at the write
DatabaseFailed(rt) == rt.rate = "failed" \/ rt.write = "failed"

C22_DatabaseStep ==
    [][\A c \in Calls :
          /\ (route[c].stage = "idle" /\ route'[c].rate = "failed")
               => route'[c].stage = "admitted"
          /\ (Returns(c) /\ DatabaseFailed(route'[c]))
               => /\ res[c].kind = "chat"
                    => /\ route'[c].status = 200
                       /\ route'[c].body.kind = "chat"
                       /\ route'[c].body.id = heap[res[c].chat].id
                       /\ route'[c].body.messages = heap[res[c].chat].messages
                  /\ res[c].kind = "stream"
                    => /\ route'[c].status = 200
                       /\ route'[c].body.kind = "stream"
                  /\ res[c].kind = "error"
                    => /\ route'[c].status = 500
                       /\ route'[c].body.details = res[c].error.text
                       /\ route'[c].write = "none"]_vars

C22_DatabaseState ==
    \A c \in Calls :
        (Answered(c, "chat") /\ DatabaseFailed(route[c]))
        => /\ Started(c)
           /\ req[c].message = route[c].message
           /\ res[c].kind \in {"chat", "stream", "error"}
           /\ route[c].write = "failed"
                => /\ res[c].kind = "chat"
                   /\ route[c].status = 200
                   /\ route[c].body.kind = "chat"
                   /\ StoreHas(chatStore, route[c].body.id)

\* C22: database failures do not break the chat request: when the count query
\* of the rate limiter fails, or the ownership or anonymous-log write fails,
\* POST /api/chat still calls the adapter and answers with the adapter's result,
\* not with an error that the database failure caused.
C22_DatabaseFailuresTolerated == []C22_DatabaseState /\ C22_DatabaseStep

C22_Witness ==
    \E c \in Calls :
        /\ Answered(c, "chat")
        /\ route[c].rate = "failed"
        /\ route[c].write = "failed"
        /\ route[c].status = 200
        /\ route[c].body.kind = "chat"
        /\ Len(route[c].body.messages) = 2
        /\ GetChat(route[c].body.id).messages = route[c].body.messages

\* ---------------------------------------------------------------------------
\* Message ids and contents of a turn
\* ---------------------------------------------------------------------------
\* the messageIds of the message_delta events of the call's outbound stream
DeltaIds(c) ==
    {out[c].events[i].messageId :
        i \in {j \in 1..Len(out[c].events) : out[c].events[j].type = "message_delta"}}

\* C31: all message_delta events of one outbound stream carry the same
\* messageId, and that messageId is the id of the assistant message that the
\* stream's finalize appends and that its chat_complete event carries.
C31_OneMessageId ==
    \A c \in Calls :
        /\ Cardinality(DeltaIds(c)) <= 1
        /\ DeltaIds(c) \subseteq {loc[c].assistantMessageId}
        /\ hist[c].upstream = "closed"
             => /\ DeltaIds(c) \subseteq {hist[c].asstMsg}
                /\ FinalMessage(c).id = loc[c].assistantMessageId
                /\ FinalMessage(c).role = "assistant"
                /\ \A i \in Completes(c) :
                      LET msgs == Carried(out[c].events[i]).messages
                      IN  /\ msgs[Len(msgs)].id = hist[c].asstMsg
                          /\ DeltaIds(c) \subseteq {msgs[Len(msgs)].id}

C31_Witness ==
    \E c \in Calls :
        /\ pc[c] = "done"
        /\ Len(out[c].events) = 3
        /\ Completes(c) = {3}
        /\ DeltaIds(c) = {hist[c].asstMsg}
        /\ Carried(out[c].events[3]).messages[2].id = out[c].events[1].messageId
        /\ out[c].events[1].messageId = out[c].events[2].messageId

\* the upstream of the call has closed without a non-empty fragment in a whole record
ClosedEmpty(c) == hist[c].upstream = "closed" /\ WholeOf(hist[c].log) = ""

SyncDone(c) ==
    pc[c] = "done" /\ req[c].mode = "sync" /\ req[c].op \in {"createChat", "sendMessage"}

\* the 200 response has no first choice, no message in it, or empty content
NoContent(body) == body.choices = "array" /\ (body.first # "message" \/ body.content = "")

\* C32: every assistant message appended by a sync createChat or a sync
\* sendMessage has non-empty content: when the upstream response has no first
\* choice, no message or empty content, the appended content is the placeholder
\* 'No response generated', and the turn is still committed to the store.
C32_SyncReplyNeverEmpty ==
    /\ \A k \in StoreKeys(chatStore) :
          \A i \in 1..Len(GetChat(k).messages) :
              GetChat(k).messages[i].role = "assistant" => GetChat(k).messages[i].content # ""
    /\ \A c \in Calls :
          SyncDone(c)
          => /\ FinalMessage(c).content # ""
             /\ NoContent(hist[c].body) => FinalMessage(c).content = NO_RESPONSE
             /\ ~NoContent(hist[c].body) => FinalMessage(c).content = hist[c].body.content
             /\ hist[c].pushes = 1
             /\ hist[c].writes = 1
             /\ StoreHas(chatStore, ChatOf(c).id)
             /\ StoreGet(chatStore, ChatOf(c).id) = loc[c].chat
             /\ hist[c].asstMsg \in MsgIds(GetChat(ChatOf(c).id).messages)

C32_Witness ==
    \E c, d \in Calls :
        /\ SyncDone(c) /\ req[c].op = "createChat"
        /\ hist[c].body.first = "none"
        /\ SyncDone(d) /\ req[d].op = "sendMessage" /\ hist[d].existing
        /\ hist[d].body.first = "message" /\ hist[d].body.content = ""
        /\ ChatOf(d).id = ChatOf(c).id
        /\ GetChat(ChatOf(c).id).messages[2].content = NO_RESPONSE
        /\ GetChat(ChatOf(c).id).messages[4].content = NO_RESPONSE

C34_RecordState ==
    \A c \in Calls :
        route[c].endpoint = "chat"
        => /\ route[c].streaming => route[c].write = "none"
           /\ route[c].write # "none"
                => /\ ~route[c].streaming
                   /\ ~route[c].hasChatId
                   /\ route[c].stage = "responded"
                   /\ res[c].kind = "chat"
                   /\ route[c].body.kind = "chat"

C34_RecordStep ==
    [][\A c \in Calls :
          (route'[c] # route[c] /\ route'[c].streaming)
          => /\ Recorded(route') = Recorded(route)
             /\ \A u \in Users : ChatCount(route', u) = ChatCount(route, u)]_vars

\* C34: a POST /api/chat request with streaming=true never creates a chat
\* ownership record or an anonymous chat log, for new and for existing chats;
\* records are created only for a non-streaming request without chatId that
\* returned a chat, so the per-user and per-IP counts that rate limiting checks
\* do not grow with streaming requests.
C34_StreamingLeavesNoRecord == []C34_RecordState /\ C34_RecordStep

C34_Witness ==
    \E c \in Calls :
        /\ Answered(c, "chat")
        /\ route[c].streaming
        /\ route[c].hasChatId
        /\ hist[c].existing
        /\ route[c].status = 200
        /\ route[c].body.kind = "stream"
        /\ pc[c] = "done"
        /\ Len(GetChat(route[c].chatId).messages) = 4
        /\ route[c].write = "none"
        /\ ChatCount(route, route[c].user) = 0
====
